---- MODULE Spec2Model ----
(***************************************************************************)
(* Tile uploader: the Batch Transfer Queue of the TilesUploader component  *)
(* (folder mode and single-file mode), the parent state it is driven by    *)
(* (FolderTree: isUploading / uploadProgress / selectedKeys / treeData),   *)
(* the delete control (TileDeleter) and the Tile Hierarchy Index           *)
(* (treeUtils.ts).                                                         *)
(*                                                                         *)
(* Spec / FairSpec : the folder uploader, its sibling and the deleter      *)
(* SingleSpec      : validation and task construction in single-file mode  *)
(* TreeSpec        : build, insert and removeMany on FolderTree's treeData *)
(* CatalogSpec     : the routes of the Tile Catalog Service (POST and      *)
(*                   DELETE /tile/{z}/{x}/{y}, DELETE /tile)               *)
(* DeleteSpec      : the load at mount, the check boxes of the tree and    *)
(*                   TileDeleter against DELETE /tile                      *)
(* SessionSpec     : a session of the page: load, folder uploads answered  *)
(*                   by the service, check boxes and deletes               *)
(* RaceSpec        : POST /tile/{z}/{x}/{y} requests handled await by      *)
(*                   await, interleaved                                    *)
(*                                                                         *)
(* A task is identified by the order in which customRequest pushed it      *)
(* (1, 2, 3, ...); the record the server creates for a task carries the    *)
(* same number.  One drain loop (processUploadQueue) is suspended at       *)
(* `await processSingleUpload(task)` for exactly one task, so the set of   *)
(* requests in flight is also the set of active drain loops.               *)
(***************************************************************************)
EXTENDS Integers, Sequences, FiniteSets, TLC

\* ---- bounds of the model -------------------------------------------------
MaxFiles == 5        \* files in the first selection handed to the Upload control
MaxLaterFiles == 2   \* files in each later selection
MaxTasks == 5        \* tasks ever pushed to the queue
MaxSingleFiles == 2  \* files in one selection of the single-file uploader
MaxSingleTasks == 2  \* tasks ever pushed by the single-file uploader
MaxRecords == 3      \* records shown by the tree
MaxBuild == 2        \* records in the list given to build, and insertions remembered
MaxInsert == 1       \* records in one completion callback of an upload batch
MaxRemove == 2       \* records in one completion callback of a delete
MaxPrefixes == 2     \* coordinates in the body of one DELETE /tile request
MaxFileErrors == 1   \* deleteFile calls that fail in one DELETE request
MaxChecked == 3      \* keys checked in the tree at one time
MaxSeed == 1         \* rows of the table before the load of a session
MaxSessionFiles == 2 \* files of the folders uploaded in a session
MaxPosts == 3        \* POST requests the service handles step by step

VARIABLES
  uploadQueue,      \* uploadQueueRef.current : sequence of tasks
  uploadedTiles,    \* uploadedTilesRef.current : records of the successful tasks
  totalFiles,       \* totalFilesRef.current
  isUploading,      \* FolderTree state, written by handleUploadProgressChange
  renderedUploading,\* the isUploading prop in the closures of the current selection
  inFlight,         \* tasks whose fetch is outstanding (one per drain loop)
  toPost,           \* accepted files of the selection not yet handed to customRequest
  nextTask,         \* number of the next task to be constructed
  progress,         \* updates this uploader published through onProgressChange in this batch
  outcome,          \* per task: "none" | "ok" | "fail"
  succeeded,        \* tasks of this batch that succeeded, in completion order
  successCalls,     \* arguments of the onUploadSuccess calls of this batch
  errorCalls,       \* tasks whose onError callback was invoked
  finished,         \* number of tasks of this batch that returned (ok or fail)
  fileCount,        \* fileList.length of the selection being posted
  siblingDraining,  \* the other TilesUploader of FolderTree is draining its queue
  isDeleting        \* TileDeleter state: a delete request is outstanding

\* the single-file mode of the same component (the uploader next to the
\* folder uploader), for the claims about its validation
VARIABLES
  selectedKeys,     \* FolderTree state selectedKeys, each key given as the path
                    \* of titles getNodePath finds for it in treeData
  acceptedFiles,    \* files accepted by beforeUpload, not yet handed to customRequest
  taskCoord         \* per task: the coordinates customRequestSingle gave it

singleVars == <<selectedKeys, acceptedFiles, taskCoord>>

\* the Tile Hierarchy Index (treeUtils.ts) and the tree state of FolderTree
VARIABLES
  treeData,         \* FolderTree state treeData: sequence of z nodes
  tiles,            \* coordinates of the records the tree should show
  origin,           \* how treeData was produced: "build" | "insert" | "mixed"
  input,            \* the list given to build, or the records inserted so far
  lastOp            \* what the last operation on the tree did

treeVars == <<treeData, tiles, origin, input, lastOp>>

\* the Tile Catalog Service: the tile table behind prisma and the bucket
\* behind minio.ts, with the request the routes handled last and its answer
VARIABLES
  catalog,          \* rows of the tile table
  store,            \* names of the objects in the bucket
  request,          \* the request the service handled in the last step
  response,         \* the response to it
  posts             \* POST requests handled await by await: where each stands

serverVars == <<catalog, store, request, response, posts>>

\* FolderTree and TileDeleter around the tree
VARIABLES
  isLoading,        \* FolderTree state isLoading
  checkedKeys,      \* FolderTree state checkedKeys, the keys as strings
  confirmOpen,      \* the confirm dialog of showDeleteConfirm is open
  pending,          \* body of the DELETE request in flight
  notice            \* the message shown last through messageApi

deleterVars == <<checkedKeys, confirmOpen, pending, notice>>

vars == <<uploadQueue, uploadedTiles, totalFiles, isUploading, renderedUploading,
          inFlight, toPost, nextTask, progress, outcome, succeeded,
          successCalls, errorCalls, finished, fileCount, siblingDraining,
          isDeleting, selectedKeys, acceptedFiles, taskCoord,
          treeData, tiles, origin, input, lastOp,
          catalog, store, request, response, posts,
          isLoading, checkedKeys, confirmOpen, pending, notice>>

\* everything owned by this uploader
ownVars == <<uploadQueue, uploadedTiles, totalFiles, inFlight, toPost, nextTask,
             progress, outcome, succeeded, successCalls, errorCalls,
             finished, fileCount>>

Tasks == 1..MaxTasks

\* what the create request can come back with
Responses == {"created", "httpError", "notSuccess", "networkError"}

\* ---- the refs and the observers, as one value ------------------------------
St == [q |-> uploadQueue, up |-> uploadedTiles, total |-> totalFiles,
       isU |-> isUploading, fl |-> inFlight, log |-> progress,
       out |-> outcome, succ |-> succeeded, calls |-> successCalls,
       errs |-> errorCalls, fin |-> finished]

Commit(s) ==
  /\ uploadQueue' = s.q
  /\ uploadedTiles' = s.up
  /\ totalFiles' = s.total
  /\ isUploading' = s.isU
  /\ inFlight' = s.fl
  /\ progress' = s.log
  /\ outcome' = s.out
  /\ succeeded' = s.succ
  /\ successCalls' = s.calls
  /\ errorCalls' = s.errs
  /\ finished' = s.fin

\* the percentage truncated instead of rounded
Percent_Truncated(n, total) ==
  IF total > 0 THEN (100 * n) \div total ELSE 0

\* Math.round(n / total * 100), 0 when total is 0
Percent(n, total) ==
  IF total > 0 THEN (200 * n + total) \div (2 * total) ELSE 0

\* onProgressChange -> handleUploadProgressChange
onProgressChange(s, uploading, percent) ==
  [s EXCEPT !.log = Append(@, [isUploading |-> uploading, percent |-> percent]),
            !.isU = uploading]

\* processSingleUpload up to `await fetch`
processSingleUploadBegin(s, task) ==
  [onProgressChange(s, TRUE, Percent(Len(s.up), s.total))
     EXCEPT !.fl = @ \cup {task}]

processSingleUploadEnd_DropsRecord(s, task, resp) ==
  IF resp = "created"
  THEN LET s1 == [s EXCEPT !.fl = @ \ {task},
                           !.out[task] = "ok",
                           !.succ = Append(@, task),
                           !.fin = @ + 1]
       IN onProgressChange(s1, TRUE, Percent(Len(s1.up), s1.total))
  ELSE [s EXCEPT !.fl = @ \ {task},
                 !.out[task] = "fail",
                 !.errs = @ \cup {task},
                 !.fin = @ + 1]

\* processSingleUpload from the response to its return
processSingleUploadEnd(s, task, resp) ==
  IF resp = "created"
  THEN LET s1 == [s EXCEPT !.up = Append(@, task),
                           !.fl = @ \ {task},
                           !.out[task] = "ok",
                           !.succ = Append(@, task),
                           !.fin = @ + 1]
       IN onProgressChange(s1, TRUE, Percent(Len(s1.up), s1.total))
  ELSE [s EXCEPT !.fl = @ \ {task},
                 !.out[task] = "fail",
                 !.errs = @ \cup {task},
                 !.fin = @ + 1]

\* the end of a drain that forgets to reset the total counter
drainFinish_KeepsTotal(s) ==
  LET s1 == IF Len(s.up) > 0
            THEN [s EXCEPT !.calls = Append(@, s.up), !.up = <<>>]
            ELSE s
  IN onProgressChange(onProgressChange(s1, FALSE, 100), FALSE, 100)

\* processUploadQueue after the while loop: callback, final updates, reset
drainFinish(s) ==
  LET s1 == IF Len(s.up) > 0
            THEN [s EXCEPT !.calls = Append(@, s.up), !.up = <<>>]
            ELSE s
      s2 == onProgressChange(s1, FALSE, 100)
      s3 == onProgressChange(s2, FALSE, 100)
  IN [s3 EXCEPT !.total = 0]

\* one evaluation of the while condition of processUploadQueue
drainLoop(s) ==
  IF Len(s.q) > 0
  THEN processSingleUploadBegin([s EXCEPT !.q = Tail(@)], Head(s.q))
  ELSE drainFinish(s)

\* a drain loop in which the failure of a task is not caught per task: it leaves
\* the while loop through the finally block
drainResume_FailureAborts(s, task, resp) ==
  IF resp = "created"
  THEN drainLoop(processSingleUploadEnd(s, task, resp))
  ELSE [onProgressChange([s EXCEPT !.fl = @ \ {task},
                                   !.out[task] = "fail",
                                   !.fin = @ + 1], FALSE, 100)
          EXCEPT !.total = 0]

\* processUploadQueue resumed at `await processSingleUpload(task)`: the task
\* returns (its failure is caught inside processSingleUpload) and the while
\* condition is evaluated again
drainResume(s, task, resp) ==
  drainLoop(processSingleUploadEnd(s, task, resp))

\* processUploadQueue from its call to its first await
processUploadQueue(s, propIsUploading) ==
  IF propIsUploading \/ Len(s.q) = 0
  THEN s
  ELSE drainLoop(onProgressChange(s, TRUE, 0))

\* customRequestFolder: construct the task, push it, start the drain once
\* the queue holds totalFiles tasks
customRequest(s, task, propIsUploading) ==
  LET s1 == [s EXCEPT !.q = Append(@, task)]
  IN IF Len(s1.q) = s1.total
     THEN processUploadQueue(s1, propIsUploading)
     ELSE s1

\* beforeUpload for one file of the selection; valid is beforeUploadFolder's verdict
beforeUpload(s, valid, fileListLength, propIsUploading) ==
  IF ~valid THEN s
  ELSE IF ~propIsUploading /\ s.total = 0
       THEN LET s1 == IF s.fl = {}
                      THEN [s EXCEPT !.log = <<>>, !.succ = <<>>, !.calls = <<>>,
                                     !.fin = 0]
                      ELSE s
            IN onProgressChange([s1 EXCEPT !.total = fileListLength], FALSE, 0)
       ELSE s

RECURSIVE beforeUploadAll(_, _, _, _)
beforeUploadAll(s, fileList, i, propIsUploading) ==
  IF i > Len(fileList) THEN s
  ELSE beforeUploadAll(beforeUpload(s, fileList[i], Len(fileList), propIsUploading),
                       fileList, i + 1, propIsUploading)

Accepted(fileList) == Cardinality({i \in 1..Len(fileList) : fileList[i]})

FileLists == UNION {[1..n -> BOOLEAN] : n \in 1..MaxFiles}

\* ---- single-file mode: validation and task construction -------------------
\* A string is the sequence of its characters.
Digits == {"0", "1", "2", "3", "4", "5", "6", "7", "8", "9"}

\* /^\d+$/.test(str)
IsDigits(str) == Len(str) > 0 /\ \A i \in 1..Len(str) : str[i] \in Digits

\* what the regular expression sees of the value undefined
Undefined == <<"u", "n", "d", "e", "f", "i", "n", "e", "d">>

\* array[i - 1] of a JavaScript array: undefined beyond its end
At(array, i) == IF i <= Len(array) THEN array[i] ELSE Undefined

\* coordinates of a task that has not been constructed
NoCoord == [z |-> <<>>, x |-> <<>>, y |-> <<>>]

\* the paths of titles from a root of the tree to a node: a z node, an x node,
\* a leaf; the empty path is that of a key no node of treeData carries
NodePaths == {<<>>, << <<"1">> >>, << <<"1">>, <<"0">> >>,
              << <<"1">>, <<"0">>, <<"5">> >>}

\* files the user can pick: name = stem.ext, extension in lower case
SingleFiles ==
  {[stem |-> <<"0">>, ext |-> "jpg", type |-> "image/jpeg"],
   [stem |-> <<"7">>, ext |-> "jpg", type |-> "image/jpeg"],
   [stem |-> <<"y">>, ext |-> "jpg", type |-> "image/jpeg"],
   [stem |-> <<"0">>, ext |-> "png", type |-> "image/jpeg"]}

SingleFileLists == UNION {[1..n -> SingleFiles] : n \in 1..MaxSingleFiles}

\* getNodePath(selectedKeys[0]): the path of the selected node, empty when no
\* key is selected or the key is not in treeData
getNodePath(keys) == IF keys = <<>> THEN <<>> ELSE keys[1]

\* fileName.match(/^(\d+)\.jpg$/i)
yMatch(file) == file.ext = "jpg" /\ IsDigits(file.stem)

beforeUploadSingle(file, keys) ==
  IF keys = <<>> THEN FALSE
  ELSE IF ~(file.type = "image/jpeg" \/ file.ext = "jpg") THEN FALSE
  ELSE LET path == getNodePath(keys) IN
       IF Len(path) < 2 THEN FALSE
       ELSE IF ~yMatch(file) THEN FALSE
       ELSE IsDigits(path[1]) /\ IsDigits(path[2]) /\ IsDigits(file.stem)

\* customRequestSingle on the uploader a == [s, coord, next]: s the refs and
\* observers, coord the coordinates given to the tasks, next the number of the
\* next task.  The push and the start of the drain are those of customRequest.
customRequestSingle(a, file, keys, propIsUploading) ==
  LET path == getNodePath(keys) IN
  IF ~yMatch(file) THEN a
  ELSE [s |-> customRequest(a.s, a.next, propIsUploading),
        coord |-> [a.coord EXCEPT ![a.next] =
                     [z |-> At(path, 1), x |-> At(path, 2), y |-> file.stem]],
        next |-> a.next + 1]

\* the Upload control hands every accepted file to customRequest, one after
\* the other in one synchronous loop
RECURSIVE postAll(_, _, _, _)
postAll(a, files, keys, propIsUploading) ==
  IF files = <<>> THEN a
  ELSE postAll(customRequestSingle(a, Head(files), keys, propIsUploading),
               Tail(files), keys, propIsUploading)

\* ---- Tile Hierarchy Index (treeUtils.ts) ----------------------------------
\* A coordinate segment is a digit string, a node key is the sequence of the
\* parts split("_") yields: <<"z", z>>, <<"z", z, "x", x>>,
\* <<"z", z, "x", x, "y", y>>.
ZSegs == {<<"9">>, <<"1", "0">>}
XSegs == {<<"0">>, <<"1">>}
YSegs == {<<"1">>, <<"0", "1">>}

\* the segments in the order of the server's queries (orderBy ... "asc" on
\* strings)
ZOrder == << <<"1", "0">>, <<"9">> >>
XOrder == << <<"0">>, <<"1">> >>
YOrder == << <<"0", "1">>, <<"1">> >>

\* a TileData record; the server names the file z-x-y and refuses a second
\* record of the same name, so the coordinate identifies the record
Tile(z, x, y) == [id |-> <<z, x, y>>, fileName |-> <<z, x, y>>,
                  z |-> z, x |-> x, y |-> y]

TileRecords == {Tile(z, x, y) : z \in ZSegs, x \in XSegs, y \in YSegs}

DigitChars == <<"0", "1", "2", "3", "4", "5", "6", "7", "8", "9">>

DigitValue(c) == (CHOOSE i \in 1..10 : DigitChars[i] = c) - 1

\* parseInt of a digit string
RECURSIVE parseInt(_)
parseInt(str) ==
  IF str = <<>> THEN 0
  ELSE 10 * parseInt(SubSeq(str, 1, Len(str) - 1)) + DigitValue(str[Len(str)])

buildNodeKey1(z) == <<"z", z>>
buildNodeKey2(z, x) == <<"z", z, "x", x>>
buildNodeKey3(z, x, y) == <<"z", z, "x", x, "y", y>>

\* array.find(node => node.key === key), as an index (0: not found)
FindIndex(nodes, key) ==
  IF \E i \in 1..Len(nodes) : nodes[i].key = key
  THEN CHOOSE i \in 1..Len(nodes) :
         /\ nodes[i].key = key
         /\ \A j \in 1..(i - 1) : nodes[j].key # key
  ELSE 0

FilterOut_DropsFirst(nodes, key) ==
  IF \E i \in 1..Len(nodes) : nodes[i].key = key
  THEN SelectSeq(nodes, LAMBDA n : n.key # key)
  ELSE Tail(nodes)

\* array.filter(node => node.key !== key)
FilterOut(nodes, key) == SelectSeq(nodes, LAMBDA n : n.key # key)

\* nodes.sort((a, b) => parseInt(a.key.split("_")[part]) - parseInt(...)), the
\* part counted from 1; the sort is stable: nodes that compare equal keep
\* their order
RECURSIVE SortByPart_TiesReversed(_, _)
SortByPart_TiesReversed(nodes, part) ==
  IF nodes = <<>> THEN <<>>
  ELSE LET rest == SortByPart_TiesReversed(SubSeq(nodes, 1, Len(nodes) - 1), part)
           e == nodes[Len(nodes)]
           k == Cardinality({i \in 1..Len(rest) :
                  parseInt(rest[i].key[part]) < parseInt(e.key[part])})
       IN SubSeq(rest, 1, k) \o <<e>> \o SubSeq(rest, k + 1, Len(rest))

RECURSIVE SortByPart(_, _)
SortByPart(nodes, part) ==
  IF nodes = <<>> THEN <<>>
  ELSE LET rest == SortByPart(SubSeq(nodes, 1, Len(nodes) - 1), part)
           e == nodes[Len(nodes)]
           k == Cardinality({i \in 1..Len(rest) :
                  parseInt(rest[i].key[part]) <= parseInt(e.key[part])})
       IN SubSeq(rest, 1, k) \o <<e>> \o SubSeq(rest, k + 1, Len(rest))

sortTreeData_OnlyTopLevel(tree) == SortByPart(tree, 2)

sortTreeData(tree) ==
  LET sortedData == SortByPart(tree, 2)
      SortX(zNode) ==
        LET xs == SortByPart(zNode.children, 4)
        IN [zNode EXCEPT !.children =
              [i \in 1..Len(xs) |->
                 [xs[i] EXCEPT !.children = SortByPart(xs[i].children, 6)]]]
  IN [i \in 1..Len(sortedData) |-> SortX(sortedData[i])]

ZNode(z) == [key |-> buildNodeKey1(z), title |-> z, children |-> <<>>,
             isLeaf |-> FALSE]
XNode(z, x) == [key |-> buildNodeKey2(z, x), title |-> x, children |-> <<>>,
                isLeaf |-> FALSE]
YNode(tile) == [key |-> buildNodeKey3(tile.z, tile.x, tile.y), title |-> tile.y,
                isLeaf |-> TRUE, tileId |-> tile.id, fileName |-> tile.fileName,
                selectable |-> FALSE]

\* the body of the forEach of buildTreeFromTiles: treeMap as the sequence of
\* its values in insertion order; the leaf is pushed without a look-up
buildStep(treeMap, tile) ==
  LET zKey == buildNodeKey1(tile.z)
      xKey == buildNodeKey2(tile.z, tile.x)
      map1 == IF FindIndex(treeMap, zKey) = 0
              THEN Append(treeMap, ZNode(tile.z)) ELSE treeMap
      zi == FindIndex(map1, zKey)
      zc == IF FindIndex(map1[zi].children, xKey) = 0
            THEN Append(map1[zi].children, XNode(tile.z, tile.x))
            ELSE map1[zi].children
      xi == FindIndex(zc, xKey)
  IN [map1 EXCEPT ![zi].children =
        [zc EXCEPT ![xi].children = Append(@, YNode(tile))]]

RECURSIVE buildAll(_, _)
buildAll(treeMap, tileList) ==
  IF tileList = <<>> THEN treeMap
  ELSE buildAll(buildStep(treeMap, Head(tileList)), Tail(tileList))

buildTreeFromTiles(tileList) == sortTreeData(buildAll(<<>>, tileList))

addTileToTree_NoLookup(tree, tileData) == sortTreeData(buildStep(tree, tileData))

addTileToTree(tree, tileData) ==
  LET zKey == buildNodeKey1(tileData.z)
      xKey == buildNodeKey2(tileData.z, tileData.x)
      yKey == buildNodeKey3(tileData.z, tileData.x, tileData.y)
      newData == IF FindIndex(tree, zKey) = 0
                 THEN Append(tree, ZNode(tileData.z)) ELSE tree
      zi == FindIndex(newData, zKey)
      zc == IF FindIndex(newData[zi].children, xKey) = 0
            THEN Append(newData[zi].children, XNode(tileData.z, tileData.x))
            ELSE newData[zi].children
      xi == FindIndex(zc, xKey)
      yc == IF FindIndex(zc[xi].children, yKey) = 0
            THEN Append(zc[xi].children, YNode(tileData))
            ELSE zc[xi].children
  IN sortTreeData([newData EXCEPT ![zi].children = [zc EXCEPT ![xi].children = yc]])

removeTileFromTree_KeepsEmptyX(tree, tileData) ==
  LET zKey == buildNodeKey1(tileData.z)
      xKey == buildNodeKey2(tileData.z, tileData.x)
      yKey == buildNodeKey3(tileData.z, tileData.x, tileData.y)
      zi == FindIndex(tree, zKey)
      xi == FindIndex(tree[zi].children, xKey)
  IN IF zi = 0 THEN tree
     ELSE IF xi = 0 THEN tree
     ELSE sortTreeData([tree EXCEPT ![zi].children[xi].children = FilterOut(@, yKey)])

removeTileFromTree(tree, tileData) ==
  LET zKey == buildNodeKey1(tileData.z)
      xKey == buildNodeKey2(tileData.z, tileData.x)
      yKey == buildNodeKey3(tileData.z, tileData.x, tileData.y)
      zi == FindIndex(tree, zKey)
      xi == FindIndex(tree[zi].children, xKey)
      yc == FilterOut(tree[zi].children[xi].children, yKey)
      zc == IF yc = <<>> THEN FilterOut(tree[zi].children, xKey)
            ELSE [tree[zi].children EXCEPT ![xi].children = yc]
  IN IF zi = 0 THEN tree
     ELSE IF xi = 0 THEN tree
     ELSE IF zc = <<>> THEN FilterOut(tree, zKey)
     ELSE sortTreeData([tree EXCEPT ![zi].children = zc])

removeTilesFromTree_StopsAfterFirst(tree, tilesToRemove) ==
  IF tilesToRemove = <<>> THEN tree
  ELSE removeTileFromTree(tree, Head(tilesToRemove))

RECURSIVE removeTilesFromTree(_, _)
removeTilesFromTree(tree, tilesToRemove) ==
  IF tilesToRemove = <<>> THEN tree
  ELSE removeTilesFromTree(removeTileFromTree(tree, Head(tilesToRemove)),
                           Tail(tilesToRemove))

\* the updater updateTreeDataAfterUpload gives to setTreeData
RECURSIVE updateTreeDataAfterUpload(_, _)
updateTreeDataAfterUpload(prevData, newTileDataList) ==
  IF newTileDataList = <<>> THEN prevData
  ELSE updateTreeDataAfterUpload(addTileToTree(prevData, Head(newTileDataList)),
                                 Tail(newTileDataList))

updateTreeDataAfterDelete_RemovesFirstOnly(prevData, deletedTiles) ==
  IF deletedTiles = <<>> THEN prevData
  ELSE removeTileFromTree(prevData, Head(deletedTiles))

\* the updater updateTreeDataAfterDelete gives to setTreeData
updateTreeDataAfterDelete(prevData, deletedTiles) ==
  removeTilesFromTree(prevData, deletedTiles)

\* ---- keys as strings and the Delete Resolver (TileDeleter.tsx) --------------
\* a field of a coordinate that was never assigned (undefined)
Absent == <<"undefined">>

\* the truth value JavaScript gives a coordinate field: undefined and the
\* empty string are falsy, every other string ("0" included) is truthy
Truthy(field) == field # Absent /\ field # <<>>

\* labels and segments of a tree key, each as a string
Piece(key, i) == IF i % 2 = 1 THEN <<key[i]>> ELSE key[i]

\* the string buildNodeKey renders: `z_${z}`, `z_${z}_x_${x}`, `z_${z}_x_${x}_y_${y}`
RECURSIVE keyString(_, _)
keyString(key, i) ==
  IF i > Len(key) THEN <<>>
  ELSE IF i = Len(key) THEN Piece(key, i)
  ELSE Piece(key, i) \o <<"_">> \o keyString(key, i + 1)

\* String.prototype.split with a one character separator
RECURSIVE split(_, _)
split(str, sep) ==
  IF \A i \in 1..Len(str) : str[i] # sep THEN <<str>>
  ELSE LET i == CHOOSE k \in 1..Len(str) :
                  str[k] = sep /\ \A j \in 1..(k - 1) : str[j] # sep
       IN <<SubSeq(str, 1, i - 1)>> \o split(SubSeq(str, i + 1, Len(str)), sep)

\* the null parseKeyToCoordinate returns
NullCoordinate == [z |-> Absent, x |-> Absent, y |-> Absent]

parseKeyToCoordinate_DropsY(key) ==
  LET parts == split(key, "_")
  IN IF Len(parts) < 2 \/ parts[1] # <<"z">> THEN NullCoordinate
     ELSE [z |-> parts[2],
           x |-> IF Len(parts) >= 4 /\ parts[3] = <<"x">> THEN parts[4] ELSE Absent,
           y |-> Absent]

parseKeyToCoordinate(key) ==
  LET parts == split(key, "_")
  IN IF Len(parts) < 2 \/ parts[1] # <<"z">> THEN NullCoordinate
     ELSE [z |-> parts[2],
           x |-> IF Len(parts) >= 4 /\ parts[3] = <<"x">> THEN parts[4] ELSE Absent,
           y |-> IF Len(parts) >= 6 /\ parts[5] = <<"y">> THEN parts[6] ELSE Absent]

Coordinates_WithoutZLevel(keys) ==
  SelectSeq([i \in 1..Len(keys) |->
               [key |-> keys[i], coord |-> parseKeyToCoordinate(keys[i])]],
            LAMBDA item : item.coord # NullCoordinate /\ Truthy(item.coord.x))

\* keys.map(key => ({key, coord})).filter(item => item.coord !== null)
Coordinates(keys) ==
  SelectSeq([i \in 1..Len(keys) |->
               [key |-> keys[i], coord |-> parseKeyToCoordinate(keys[i])]],
            LAMBDA item : item.coord # NullCoordinate)

hasParent_DirectParentOnly(coordinates, item) ==
  \E j \in 1..Len(coordinates) :
    LET otherKey == coordinates[j].key
        otherCoord == coordinates[j].coord
        coord == item.coord
    IN /\ otherKey # item.key
       /\ otherCoord.z = coord.z
       /\ \/ ~Truthy(otherCoord.x) /\ Truthy(coord.x) /\ ~Truthy(coord.y)
          \/ otherCoord.x = coord.x /\ ~Truthy(otherCoord.y) /\ Truthy(coord.y)

\* the callback of coordinates.some(...) in filterHighestLevelKeys
hasParent(coordinates, item) ==
  \E j \in 1..Len(coordinates) :
    LET otherKey == coordinates[j].key
        otherCoord == coordinates[j].coord
        coord == item.coord
    IN /\ otherKey # item.key
       /\ otherCoord.z = coord.z
       /\ \/ ~Truthy(otherCoord.x) /\ Truthy(coord.x)
          \/ otherCoord.x = coord.x /\ ~Truthy(otherCoord.y) /\ Truthy(coord.y)

KeysOfItems(items) == [i \in 1..Len(items) |-> items[i].key]

filterHighestLevelKeys_OnePerZ(keys) ==
  LET coordinates == Coordinates(keys)
      sameZBefore(i) == \E j \in 1..(i - 1) :
                          coordinates[j].coord.z = coordinates[i].coord.z
      kept == {i \in 1..Len(coordinates) :
                 ~hasParent(coordinates, coordinates[i]) /\ ~sameZBefore(i)}
  IN KeysOfItems(SelectSeq(coordinates,
       LAMBDA item : \E i \in kept : coordinates[i] = item))

filterHighestLevelKeys(keys) ==
  LET coordinates == Coordinates(keys)
  IN KeysOfItems(SelectSeq(coordinates,
       LAMBDA item : ~hasParent(coordinates, item)))

\* highestLevelKeys.map(parseKeyToCoordinate).filter(coord => coord !== null)
CoordinatesOf(highestLevelKeys) ==
  LET all == [i \in 1..Len(highestLevelKeys) |->
                parseKeyToCoordinate(highestLevelKeys[i])]
  IN SelectSeq(all, LAMBDA coord : coord # NullCoordinate)

\* the three checks showDeleteConfirm and handleDelete share: the message of
\* the check that fails, "pass" when none fails
deleteChecks(keys) ==
  IF Len(keys) = 0 THEN "selectFirst"
  ELSE IF Len(filterHighestLevelKeys(keys)) = 0 THEN "nothingValid"
  ELSE IF Len(CoordinatesOf(filterHighestLevelKeys(keys))) = 0 THEN "invalidFormat"
  ELSE "pass"

\* the request and the response of the service before any request
NoRequest == [route |-> "none", args |-> <<>>, failing |-> {}, ok |-> TRUE]
NoResponse == [status |-> 0, data |-> <<>>, fileDeleteErrors |-> {}]

\* a POST request that has not arrived
IdlePost == [pc |-> "idle", slug |-> <<>>, existingTile |-> {},
             uploaded |-> FALSE, status |-> 0]


\* ---- actions -----------------------------------------------------------
\* the uploaders and the deleter after mount
QueueInit ==
  /\ uploadQueue = <<>>
  /\ uploadedTiles = <<>>
  /\ totalFiles = 0
  /\ isUploading = FALSE
  /\ renderedUploading = FALSE
  /\ inFlight = {}
  /\ toPost = 0
  /\ nextTask = 1
  /\ progress = <<>>
  /\ outcome = [t \in Tasks |-> "none"]
  /\ succeeded = <<>>
  /\ successCalls = <<>>
  /\ errorCalls = {}
  /\ finished = 0
  /\ fileCount = 0
  /\ siblingDraining = FALSE
  /\ isDeleting = FALSE

\* the single-file uploader after mount: no tree node selected
SingleInit ==
  /\ selectedKeys = <<>>
  /\ acceptedFiles = <<>>
  /\ taskCoord = [t \in Tasks |-> NoCoord]

\* FolderTree before the tile list is loaded: useState([])
TreeIdle ==
  /\ treeData = <<>>
  /\ tiles = {}
  /\ origin = "build"
  /\ input = <<>>
  /\ lastOp = "none"

\* the service before any request: an empty table and an empty bucket
ServerIdle ==
  /\ catalog = {}
  /\ store = {}
  /\ request = NoRequest
  /\ response = NoResponse
  /\ posts = [i \in 1..MaxPosts |-> IdlePost]

\* FolderTree and TileDeleter after mount: useState(true) for isLoading, no
\* key checked, no dialog, no request, no message
DeleterIdle ==
  /\ isLoading = TRUE
  /\ checkedKeys = <<>>
  /\ confirmOpen = FALSE
  /\ pending = <<>>
  /\ notice = "none"

Init == QueueInit /\ SingleInit /\ TreeIdle /\ ServerIdle /\ DeleterIdle

\* The user selects a folder in the file dialog of the Upload control.  The
\* control is disabled while FolderTree's isUploading is true
\* (disabled={isDisabled}), so the selection is made on a render in which
\* isUploading is false, and the handlers it runs are the closures of that
\* render.  The control runs beforeUpload on every file of the selection.
SelectFiles ==
  /\ ~isUploading
  /\ toPost = 0
  /\ \E fileList \in FileLists :
       /\ nextTask > 1 => Len(fileList) <= MaxLaterFiles
       /\ Accepted(fileList) > 0
       /\ nextTask + Accepted(fileList) <= MaxTasks + 1
       /\ Commit(beforeUploadAll(St, fileList, 1, isUploading))
       /\ toPost' = Accepted(fileList)
       /\ fileCount' = Len(fileList)
  /\ renderedUploading' = isUploading
  /\ UNCHANGED <<nextTask, siblingDraining, isDeleting>>
  /\ UNCHANGED <<singleVars, treeVars, serverVars, isLoading, deleterVars>>

\* the Upload control hands the next accepted file to customRequest; the
\* calls of one selection follow each other synchronously, no request returns
\* and no render is committed between them
CustomRequest ==
  /\ toPost > 0
  /\ Commit(customRequest(St, nextTask, renderedUploading))
  /\ nextTask' = nextTask + 1
  /\ toPost' = toPost - 1
  /\ fileCount' = IF toPost = 1 THEN 0 ELSE fileCount
  /\ UNCHANGED <<renderedUploading, siblingDraining, isDeleting>>
  /\ UNCHANGED <<singleVars, treeVars, serverVars, isLoading, deleterVars>>

\* a create request returns and its drain loop runs to its next await or its end
Complete ==
  /\ toPost = 0
  /\ \E task \in inFlight, resp \in Responses :
       Commit(drainResume(St, task, resp))
  /\ UNCHANGED <<renderedUploading, toPost, nextTask, fileCount, siblingDraining,
                 isDeleting>>
  /\ UNCHANGED <<singleVars, treeVars, serverVars, isLoading, deleterVars>>

\* The other TilesUploader instance of FolderTree (single-file mode) shares
\* isUploading and handleUploadProgressChange with this one.  It is reduced to
\* what a drain of its own queue does to the shared state: a selection on its
\* enabled control starts the drain (processUploadQueue publishes
\* isUploading: true) ...
SiblingStart ==
  /\ ~isUploading
  /\ toPost = 0
  /\ ~siblingDraining
  /\ siblingDraining' = TRUE
  /\ isUploading' = TRUE
  /\ UNCHANGED <<ownVars, renderedUploading, isDeleting>>
  /\ UNCHANGED <<singleVars, treeVars, serverVars, isLoading, deleterVars>>

\* ... every task of it publishes isUploading: true again ...
SiblingProgress ==
  /\ siblingDraining
  /\ toPost = 0
  /\ ~isUploading
  /\ isUploading' = TRUE
  /\ UNCHANGED <<ownVars, renderedUploading, siblingDraining, isDeleting>>
  /\ UNCHANGED <<singleVars, treeVars, serverVars, isLoading, deleterVars>>

\* ... and its end publishes isUploading: false
SiblingEnd ==
  /\ siblingDraining
  /\ toPost = 0
  /\ siblingDraining' = FALSE
  /\ isUploading' = FALSE
  /\ UNCHANGED <<ownVars, renderedUploading, isDeleting>>
  /\ UNCHANGED <<singleVars, treeVars, serverVars, isLoading, deleterVars>>

\* The user confirms the delete dialog of TileDeleter: handleDelete sets
\* isDeleting and sends the DELETE request.  The Delete button is enabled when
\* some tree node is checked and no delete is outstanding
\* (isDisabled = checkedKeys.length === 0 || isDeleting); which nodes are
\* checked is the user's choice.  The control does not read isUploading.
DeleteStart ==
  /\ ~isDeleting
  /\ toPost = 0
  /\ isDeleting' = TRUE
  /\ UNCHANGED <<ownVars, isUploading, renderedUploading, siblingDraining>>
  /\ UNCHANGED <<singleVars, treeVars, serverVars, isLoading, deleterVars>>

\* the DELETE request returns (deleted, HTTP error or network error): the
\* finally block of handleDelete clears isDeleting
DeleteEnd ==
  /\ isDeleting
  /\ toPost = 0
  /\ isDeleting' = FALSE
  /\ UNCHANGED <<ownVars, isUploading, renderedUploading, siblingDraining>>
  /\ UNCHANGED <<singleVars, treeVars, serverVars, isLoading, deleterVars>>

Next ==
  \/ SelectFiles \/ CustomRequest \/ Complete
  \/ SiblingStart \/ SiblingProgress \/ SiblingEnd
  \/ DeleteStart \/ DeleteEnd

Spec == Init /\ [][Next]_vars

\* the control posts every accepted file and the network answers every
\* request (of this uploader and of the other one); the user is not obliged to
\* select again
FairSpec ==
  Spec /\ WF_vars(CustomRequest) /\ WF_vars(Complete) /\ WF_vars(SiblingEnd)
       /\ WF_vars(DeleteEnd)

TypeOK ==
  /\ uploadQueue \in Seq(Tasks)
  /\ uploadedTiles \in Seq(Tasks)
  /\ totalFiles \in 0..MaxFiles
  /\ isUploading \in BOOLEAN
  /\ renderedUploading \in BOOLEAN
  /\ inFlight \subseteq Tasks
  /\ toPost \in 0..MaxFiles
  /\ nextTask \in 1..(MaxTasks + 1)
  /\ outcome \in [Tasks -> {"none", "ok", "fail"}]
  /\ errorCalls \subseteq Tasks
  /\ finished \in 0..MaxTasks
  /\ fileCount \in 0..MaxFiles
  /\ siblingDraining \in BOOLEAN
  /\ isDeleting \in BOOLEAN

\* ---- single-file mode: actions --------------------------------------------
\* onSelect / onExpand of the tree, or a change of treeData under the selected
\* key: the committed render shows another selection
SelectNode ==
  /\ \E keys \in {<<>>} \cup {<<path>> : path \in NodePaths} :
       /\ keys # selectedKeys
       /\ selectedKeys' = keys
  /\ UNCHANGED <<ownVars, isUploading, renderedUploading, siblingDraining,
                 isDeleting, acceptedFiles, taskCoord, treeVars,
                 serverVars, isLoading, deleterVars>>

\* the user picks files in the dialog of the single-file uploader, enabled
\* when isUploading is false and a key is selected; the control runs
\* beforeUpload on every file
SingleSelectFiles ==
  /\ ~isUploading
  /\ selectedKeys # <<>>
  /\ acceptedFiles = <<>>
  /\ \E fileList \in SingleFileLists :
       LET valid == [i \in 1..Len(fileList) |->
                       beforeUploadSingle(fileList[i], selectedKeys)]
       IN /\ Accepted(valid) > 0
          /\ nextTask + Accepted(valid) <= MaxSingleTasks + 1
          /\ Commit(beforeUploadAll(St, valid, 1, isUploading))
          /\ acceptedFiles' =
               SelectSeq(fileList, LAMBDA f : beforeUploadSingle(f, selectedKeys))
  /\ renderedUploading' = isUploading
  /\ UNCHANGED <<toPost, nextTask, fileCount, siblingDraining, isDeleting,
                 selectedKeys, taskCoord, treeVars,
                 serverVars, isLoading, deleterVars>>

\* the control posts the accepted files: customRequestSingle builds the tasks
\* from the selection of the render committed by then
SinglePost ==
  /\ acceptedFiles # <<>>
  /\ LET a == postAll([s |-> St, coord |-> taskCoord, next |-> nextTask],
                      acceptedFiles, selectedKeys, renderedUploading)
     IN /\ Commit(a.s)
        /\ taskCoord' = a.coord
        /\ nextTask' = a.next
  /\ acceptedFiles' = <<>>
  /\ UNCHANGED <<renderedUploading, toPost, fileCount, siblingDraining,
                 isDeleting, selectedKeys, treeVars,
                 serverVars, isLoading, deleterVars>>

SingleNext == SelectNode \/ SingleSelectFiles \/ SinglePost \/ Complete

SingleSpec == Init /\ [][SingleNext]_vars

\* ---- Tile Hierarchy Index: actions ----------------------------------------
Range(seq) == {seq[i] : i \in 1..Len(seq)}

\* lists of distinct records, at most n long
TileLists(n) ==
  UNION {{list \in [1..k -> TileRecords] :
            \A i, j \in 1..k : i # j => list[i] # list[j]} : k \in 0..n}

\* all records in the order in which a query of the server returns them
AllTiles ==
  [i \in 1..(Len(ZOrder) * Len(XOrder) * Len(YOrder)) |->
     Tile(ZOrder[((i - 1) \div (Len(XOrder) * Len(YOrder))) + 1],
          XOrder[(((i - 1) \div Len(YOrder)) % Len(XOrder)) + 1],
          YOrder[((i - 1) % Len(YOrder)) + 1])]

\* the mount effect of FolderTree: GET /tile answers with
\* buildTreeFromTiles(rows) and fetchTileData stores it
LoadTiles ==
  /\ lastOp = "none"
  /\ \E tileList \in TileLists(MaxBuild) :
       /\ treeData' = buildTreeFromTiles(tileList)
       /\ tiles' = Range(tileList)
       /\ input' = tileList
  /\ origin' = "build"
  /\ lastOp' = "build"
  /\ isLoading' = FALSE
  /\ UNCHANGED <<ownVars, isUploading, renderedUploading, siblingDraining,
                 isDeleting, singleVars, serverVars, deleterVars>>

\* onUploadSuccess of an uploader: updateTreeDataAfterUpload inserts the
\* records of the batch one after the other
UploadSuccess ==
  /\ \E newTileDataList \in TileLists(MaxInsert) :
       LET new == Range(newTileDataList)
           grows == /\ origin = "insert" \/ treeData = <<>>
                    /\ new \cap tiles = {}
                    /\ Len(input) + Len(newTileDataList) <= MaxBuild
       IN /\ newTileDataList # <<>>
          /\ Cardinality(tiles \cup new) <= MaxRecords
          /\ treeData' = updateTreeDataAfterUpload(treeData, newTileDataList)
          /\ tiles' = tiles \cup new
          /\ origin' = IF grows THEN "insert" ELSE "mixed"
          /\ input' = IF ~grows THEN <<>>
                       ELSE IF origin = "insert" THEN input \o newTileDataList
                       ELSE newTileDataList
          /\ lastOp' = IF new \subseteq tiles THEN "reinsert" ELSE "insert"
  /\ UNCHANGED <<ownVars, isUploading, renderedUploading, siblingDraining,
                 isDeleting, singleVars, serverVars, isLoading,
                 deleterVars>>

\* onDeleteSuccess of TileDeleter with the records the server deleted:
\* updateTreeDataAfterDelete removes them one after the other
DeleteSuccess ==
  /\ \E removed \in {set \in SUBSET TileRecords : Cardinality(set) \in 1..MaxRemove} :
       LET deletedTiles == SelectSeq(AllTiles, LAMBDA t : t \in removed)
           before == Len(treeData)
           after == Len(updateTreeDataAfterDelete(treeData, deletedTiles))
       IN /\ treeData' = updateTreeDataAfterDelete(treeData, deletedTiles)
          /\ tiles' = tiles \ removed
          /\ origin' = IF removed \cap tiles = {} THEN origin ELSE "mixed"
          /\ input' = IF removed \cap tiles = {} THEN input ELSE <<>>
          /\ lastOp' = IF removed \cap tiles = {} THEN "removeAbsent"
                       ELSE IF origin = "build" /\ removed = Range(input)
                       THEN "removeAll"
                       ELSE IF after < before THEN "removeCascade"
                       ELSE "remove"
  /\ UNCHANGED <<ownVars, isUploading, renderedUploading, siblingDraining,
                 isDeleting, singleVars, serverVars, isLoading,
                 deleterVars>>

TreeNext == LoadTiles \/ UploadSuccess \/ DeleteSuccess

TreeSpec == Init /\ [][TreeNext]_vars

\* ---- Tile Catalog Service: the routes ---------------------------------------
\* the coordinates the requests of the model are made of
ServerTiles ==
  {Tile(<<"9">>, <<"0">>, <<"1">>), Tile(<<"9">>, <<"0">>, <<"0", "1">>),
   Tile(<<"9">>, <<"1">>, <<"1">>), Tile(<<"1", "0">>, <<"0">>, <<"1">>)}

\* slug[i - 1] of a catch-all route: undefined past the end
Param(slug, i) == IF i <= Len(slug) THEN slug[i] ELSE Absent

\* a prisma `where` on z, x, y: a field that is Absent does not constrain
Where(z, x, y) == [z |-> z, x |-> x, y |-> y]

Matches(tile, where) ==
  /\ where.z # Absent => tile.z = where.z
  /\ where.x # Absent => tile.x = where.x
  /\ where.y # Absent => tile.y = where.y

\* prisma.tile.findMany({where, orderBy: [z asc, x asc, y asc]})
findMany(table, where) ==
  SelectSeq(AllTiles, LAMBDA tile : tile \in table /\ Matches(tile, where))

\* prisma.tile.deleteMany({where})
deleteMany(table, where) == {tile \in table : ~Matches(tile, where)}

\* the name of an object in the bucket: a file name and what follows it
ObjectName(fileName, suffix) == <<fileName, suffix>>

\* minio.ts deleteFile: removeObject of a name the bucket does not hold
\* succeeds and changes nothing
deleteFile(bucket, objectName) == bucket \ {objectName}

Reply(table, bucket, status, data, errors) ==
  [catalog |-> table, store |-> bucket,
   response |-> [status |-> status, data |-> data, fileDeleteErrors |-> errors]]

\* GET /tile: the tree of all rows; 500 when the query throws
GET_tile(table, bucket, queryOk) ==
  IF ~queryOk THEN Reply(table, bucket, 500, <<>>, {})
  ELSE Reply(table, bucket, 200,
             buildTreeFromTiles(findMany(table, Where(Absent, Absent, Absent))), {})

POST_slug_RejectsExisting(table, bucket, slug, uploadOk) ==
  LET z == Param(slug, 1)
      x == Param(slug, 2)
      y == Param(slug, 3)
      fileName == <<z, x, y>>
      existingTile == {tile \in table : tile.fileName = fileName}
  IN IF ~Truthy(z) \/ ~Truthy(x) \/ ~Truthy(y)
       THEN Reply(table, bucket, 400, <<>>, {})
     ELSE IF ~IsDigits(z) \/ ~IsDigits(x) \/ ~IsDigits(y)
       THEN Reply(table, bucket, 400, <<>>, {})
     ELSE IF existingTile # {}
       THEN Reply(table, bucket, 409, <<>>, {})
     ELSE IF ~uploadOk
       THEN Reply(table, bucket, 500, <<>>, {})
     ELSE Reply(table \cup {Tile(z, x, y)},
                bucket \cup {ObjectName(fileName, ".jpg")},
                201, <<Tile(z, x, y)>>, {})

\* POST /tile/{z}/{x}/{y}: uploads the body as `${fileName}.jpg`, then returns
\* the existing row (200) or creates one (201)
POST_slug(table, bucket, slug, uploadOk) ==
  LET z == Param(slug, 1)
      x == Param(slug, 2)
      y == Param(slug, 3)
      fileName == <<z, x, y>>
      existingTile == {tile \in table : tile.fileName = fileName}
      uploaded == bucket \cup {ObjectName(fileName, ".jpg")}
  IN IF ~Truthy(z) \/ ~Truthy(x) \/ ~Truthy(y)
       THEN Reply(table, bucket, 400, <<>>, {})
     ELSE IF ~IsDigits(z) \/ ~IsDigits(x) \/ ~IsDigits(y)
       THEN Reply(table, bucket, 400, <<>>, {})
     ELSE IF ~uploadOk
       THEN Reply(table, bucket, 500, <<>>, {})
     ELSE IF existingTile # {}
       THEN Reply(table, uploaded, 200, <<CHOOSE tile \in existingTile : TRUE>>, {})
     ELSE Reply(table \cup {Tile(z, x, y)}, uploaded, 201, <<Tile(z, x, y)>>, {})

\* the loop over existingTiles: deleteFile(tile.fileName) for every row, the
\* calls of the rows in `failing` fail
RECURSIVE deleteFiles(_, _, _)
deleteFiles(bucket, existingTiles, failing) ==
  IF existingTiles = <<>> THEN bucket
  ELSE LET tile == Head(existingTiles)
       IN deleteFiles(IF tile \in failing THEN bucket
                      ELSE deleteFile(bucket, ObjectName(tile.fileName, "")),
                      Tail(existingTiles), failing)

DELETE_slug_FailsOnFileError(table, bucket, slug, failing) ==
  LET z == Param(slug, 1)
      x == Param(slug, 2)
      y == Param(slug, 3)
      where == Where(z, IF Truthy(x) THEN x ELSE Absent,
                        IF Truthy(y) THEN y ELSE Absent)
      existingTiles == findMany(table, where)
      deleteErrors == {tile \in failing : Matches(tile, where) /\ tile \in table}
  IN IF ~Truthy(z) THEN Reply(table, bucket, 400, <<>>, {})
     ELSE IF ~IsDigits(z) THEN Reply(table, bucket, 400, <<>>, {})
     ELSE IF Truthy(x) /\ ~IsDigits(x) THEN Reply(table, bucket, 400, <<>>, {})
     ELSE IF Truthy(y) /\ ~IsDigits(y) THEN Reply(table, bucket, 400, <<>>, {})
     ELSE IF Len(existingTiles) = 0 THEN Reply(table, bucket, 404, <<>>, {})
     ELSE IF deleteErrors # {}
       THEN Reply(table, deleteFiles(bucket, existingTiles, failing), 500, <<>>, {})
     ELSE Reply(deleteMany(table, where),
                deleteFiles(bucket, existingTiles, failing),
                200, existingTiles, deleteErrors)

\* DELETE /tile/{z}[/{x}[/{y}]]: deletes the files of the matching rows, then
\* the rows, and reports the files it could not delete.  The rows come without
\* orderBy; the model lists them in the order of the other queries.
DELETE_slug(table, bucket, slug, failing) ==
  LET z == Param(slug, 1)
      x == Param(slug, 2)
      y == Param(slug, 3)
      where == Where(z, IF Truthy(x) THEN x ELSE Absent,
                        IF Truthy(y) THEN y ELSE Absent)
      existingTiles == findMany(table, where)
      deleteErrors == {tile \in failing : Matches(tile, where) /\ tile \in table}
  IN IF ~Truthy(z) THEN Reply(table, bucket, 400, <<>>, {})
     ELSE IF ~IsDigits(z) THEN Reply(table, bucket, 400, <<>>, {})
     ELSE IF Truthy(x) /\ ~IsDigits(x) THEN Reply(table, bucket, 400, <<>>, {})
     ELSE IF Truthy(y) /\ ~IsDigits(y) THEN Reply(table, bucket, 400, <<>>, {})
     ELSE IF Len(existingTiles) = 0 THEN Reply(table, bucket, 404, <<>>, {})
     ELSE Reply(deleteMany(table, where),
                deleteFiles(bucket, existingTiles, failing),
                200, existingTiles, deleteErrors)

\* the loop of DELETE /tile over the coordinates.  A coordinate that fails a
\* check ends the request with 400 after the coordinates before it were
\* deleted.  The route makes no call to the bucket.
RECURSIVE deleteCoordinates(_, _, _, _)
deleteCoordinates(table, bucket, coordinates, tilesToDelete) ==
  IF coordinates = <<>>
    THEN IF Len(tilesToDelete) = 0 THEN Reply(table, bucket, 404, <<>>, {})
         ELSE Reply(table, bucket, 200, tilesToDelete, {})
  ELSE LET coord == Head(coordinates)
           where == Where(coord.z, IF Truthy(coord.x) THEN coord.x ELSE Absent,
                                   IF Truthy(coord.y) THEN coord.y ELSE Absent)
           coordTiles == findMany(table, where)
       IN IF ~Truthy(coord.z) THEN Reply(table, bucket, 400, <<>>, {})
          ELSE IF Truthy(coord.y) /\ ~Truthy(coord.x)
            THEN Reply(table, bucket, 400, <<>>, {})
          ELSE deleteCoordinates(deleteMany(table, where), bucket,
                                 Tail(coordinates), tilesToDelete \o coordTiles)

DELETE_tile_FirstCoordinateOnly(table, bucket, coordinates) ==
  IF Len(coordinates) = 0 THEN Reply(table, bucket, 400, <<>>, {})
  ELSE deleteCoordinates(table, bucket, <<Head(coordinates)>>, <<>>)

\* DELETE /tile with the body {coordinates}
DELETE_tile(table, bucket, coordinates) ==
  IF Len(coordinates) = 0 THEN Reply(table, bucket, 400, <<>>, {})
  ELSE deleteCoordinates(table, bucket, coordinates, <<>>)

\* ---- Tile Catalog Service: actions ------------------------------------------
\* the paths of the POST requests: the coordinates of ServerTiles, a path
\* without y and a path whose z is no number
Slugs ==
  {<<tile.z, tile.x, tile.y>> : tile \in ServerTiles}
    \cup {<<<<"9">>, <<"0">>>>, <<<<"a">>, <<"0">>, <<"1">>>>}

\* the paths of the DELETE requests: one, two or three segments
DeleteSlugs ==
  {<<<<"9">>>>, <<<<"9">>, <<"0">>>>, <<<<"9">>, <<"0">>, <<"1">>>>,
   <<<<"1", "0">>>>, <<<<"a">>>>}

\* the coordinates of the bodies of DELETE /tile: three nested prefixes, a
\* prefix beside them, and a coordinate without z
PrefixPool ==
  {Where(<<"9">>, Absent, Absent), Where(<<"9">>, <<"0">>, Absent),
   Where(<<"9">>, <<"0">>, <<"1">>), Where(<<"1", "0">>, <<"0">>, Absent),
   Where(Absent, <<"0">>, Absent)}

PrefixLists == UNION {[1..n -> PrefixPool] : n \in 0..MaxPrefixes}

Handled(r, route, args, failing, ok) ==
  /\ catalog' = r.catalog
  /\ store' = r.store
  /\ response' = r.response
  /\ request' = [route |-> route, args |-> args, failing |-> failing, ok |-> ok]
  /\ UNCHANGED posts

\* everything outside the service and the tree component
uploaderVars == <<ownVars, isUploading, renderedUploading, siblingDraining,
                  singleVars, tiles, origin, input, lastOp>>

\* a client posts a tile: POST /tile/{z}/{x}/{y}; the bucket takes the
\* upload or refuses it
Create ==
  /\ \E slug \in Slugs, uploadOk \in BOOLEAN :
       Handled(POST_slug(catalog, store, slug, uploadOk),
               "POST /tile/slug", slug, {}, uploadOk)
  /\ UNCHANGED <<uploaderVars, treeData, isDeleting, isLoading, deleterVars>>

\* a client deletes by path: DELETE /tile/{z}[/{x}[/{y}]]; the bucket fails
\* the deleteFile calls of some rows
DeleteByPrefix ==
  /\ \E slug \in DeleteSlugs, failing \in SUBSET catalog :
       /\ Cardinality(failing) <= MaxFileErrors
       /\ Handled(DELETE_slug(catalog, store, slug, failing),
                  "DELETE /tile/slug", slug, failing, TRUE)
  /\ UNCHANGED <<uploaderVars, treeData, isDeleting, isLoading, deleterVars>>

DeleteByPrefixes_NotFoundIsFatal ==
  /\ \E coordinates \in PrefixLists :
       LET r == DELETE_tile(catalog, store, coordinates)
           missing == \E i \in 1..Len(coordinates) :
                        Len(findMany(catalog, coordinates[i])) = 0
       IN Handled(IF r.response.status = 200 /\ missing
                    THEN Reply(catalog, store, 404, <<>>, {})
                  ELSE r,
                  "DELETE /tile", coordinates, {}, TRUE)
  /\ UNCHANGED <<uploaderVars, treeData, isDeleting, isLoading, deleterVars>>

\* a client deletes by a list of coordinates: DELETE /tile
DeleteByPrefixes ==
  /\ \E coordinates \in PrefixLists :
       Handled(DELETE_tile(catalog, store, coordinates),
               "DELETE /tile", coordinates, {}, TRUE)
  /\ UNCHANGED <<uploaderVars, treeData, isDeleting, isLoading, deleterVars>>

CatalogNext == Create \/ DeleteByPrefix \/ DeleteByPrefixes

CatalogSpec == Init /\ [][CatalogNext]_vars

\* ---- FolderTree and TileDeleter: actions ------------------------------------
\* a step of the client in which the service handles no request
NoRequestHandled ==
  /\ request' = NoRequest
  /\ response' = NoResponse
  /\ UNCHANGED <<catalog, store, posts>>

\* the keys of the nodes of the tree as strings, in the order of display
RECURSIVE NodeKeys(_)
NodeKeys(nodes) ==
  IF nodes = <<>> THEN <<>>
  ELSE <<keyString(Head(nodes).key, 1)>>
         \o (IF Head(nodes).isLeaf THEN <<>> ELSE NodeKeys(Head(nodes).children))
         \o NodeKeys(Tail(nodes))

\* keys of another shape, which the type React.Key[] of checkedKeys admits:
\* "0-0", "z_abc", "z_9_x" and "z_9_x_0_y_1_extra"
ForeignKeys ==
  << <<"0", "-", "0">>,
     <<"z", "_", "a", "b", "c">>,
     <<"z", "_", "9", "_", "x">>,
     <<"z", "_", "9", "_", "x", "_", "0", "_", "y", "_", "1", "_", "e", "x", "t", "r", "a">> >>

\* the effect of fetchTileData once fetch("/tile") settled: `reached` is false
\* when fetch or response.json() threw
fetchTileData_NoFinally(prevData, reached, result) ==
  IF reached /\ result.status = 200
    THEN [treeData |-> result.data, notice |-> "none", isLoading |-> FALSE]
  ELSE [treeData |-> prevData, notice |-> "loadFailed", isLoading |-> TRUE]

fetchTileData(prevData, reached, result) ==
  IF reached /\ result.status = 200
    THEN [treeData |-> result.data, notice |-> "none", isLoading |-> FALSE]
  ELSE [treeData |-> prevData, notice |-> "loadFailed", isLoading |-> FALSE]

\* the mount effect of FolderTree: GET /tile and fetchTileData
FetchTileData ==
  /\ isLoading
  /\ \E reached \in BOOLEAN, queryOk \in BOOLEAN :
       LET r == GET_tile(catalog, store, queryOk)
           f == fetchTileData(treeData, reached, r.response)
       IN /\ treeData' = f.treeData
          /\ notice' = f.notice
          /\ isLoading' = f.isLoading
          /\ IF reached THEN Handled(r, "GET /tile", <<>>, {}, queryOk)
             ELSE NoRequestHandled
  /\ UNCHANGED <<uploaderVars, isDeleting, checkedKeys, confirmOpen, pending>>

\* onCheck of the tree: the user checks or unchecks one box; the tree is
\* mounted once the load has ended and lies under the mask of an open dialog.
\* The keys are reported in the order of display.
CheckKeys ==
  /\ ~isLoading
  /\ ~confirmOpen
  /\ LET pool == NodeKeys(treeData) \o ForeignKeys
     IN \E key \in Range(pool) :
          LET checked == IF key \in Range(checkedKeys)
                           THEN Range(checkedKeys) \ {key}
                         ELSE Range(checkedKeys) \cup {key}
          IN /\ Cardinality(checked) <= MaxChecked
             /\ checkedKeys' = SelectSeq(pool, LAMBDA k : k \in checked)
  /\ notice' = "none"
  /\ NoRequestHandled
  /\ UNCHANGED <<uploaderVars, treeData, isDeleting, isLoading, confirmOpen,
                 pending>>

\* a click on the Delete button, enabled when a key is checked and no delete
\* is outstanding: showDeleteConfirm
ShowDeleteConfirm ==
  /\ ~(Len(checkedKeys) = 0 \/ isDeleting)
  /\ ~confirmOpen
  /\ confirmOpen' = (deleteChecks(checkedKeys) = "pass")
  /\ notice' = IF deleteChecks(checkedKeys) = "pass" THEN "none"
               ELSE deleteChecks(checkedKeys)
  /\ NoRequestHandled
  /\ UNCHANGED <<uploaderVars, treeData, isDeleting, isLoading, checkedKeys,
                 pending>>

\* Cancel in the dialog
CancelConfirm ==
  /\ confirmOpen
  /\ ~isDeleting
  /\ confirmOpen' = FALSE
  /\ notice' = "none"
  /\ NoRequestHandled
  /\ UNCHANGED <<uploaderVars, treeData, isDeleting, isLoading, checkedKeys,
                 pending>>

\* OK in the dialog: handleDelete up to its fetch; a check that fails shows
\* its message and the finally block clears isDeleting
HandleDelete ==
  /\ confirmOpen
  /\ ~isDeleting
  /\ LET passed == deleteChecks(checkedKeys) = "pass"
     IN /\ isDeleting' = passed
        /\ confirmOpen' = passed
        /\ pending' = IF passed
                        THEN CoordinatesOf(filterHighestLevelKeys(checkedKeys))
                      ELSE <<>>
        /\ notice' = IF passed THEN "none" ELSE deleteChecks(checkedKeys)
  /\ NoRequestHandled
  /\ UNCHANGED <<uploaderVars, treeData, isLoading, checkedKeys>>

\* the fetch of handleDelete settles: DELETE /tile handled the body, or the
\* request never reached the service; then the rest of handleDelete and, on
\* success, updateTreeDataAfterDelete
DeleteAnswer ==
  /\ isDeleting
  /\ pending # <<>>
  /\ \E reached \in BOOLEAN :
       LET r == DELETE_tile(catalog, store, pending)
           ok == reached /\ r.response.status = 200
       IN /\ IF reached THEN Handled(r, "DELETE /tile", pending, {}, TRUE)
             ELSE NoRequestHandled
          /\ notice' = IF ok THEN "deleted" ELSE "deleteFailed"
          /\ treeData' = IF ok
                           THEN updateTreeDataAfterDelete(treeData, r.response.data)
                         ELSE treeData
          /\ checkedKeys' = IF ok THEN <<>> ELSE checkedKeys
  /\ isDeleting' = FALSE
  /\ confirmOpen' = FALSE
  /\ pending' = <<>>
  /\ UNCHANGED <<uploaderVars, isLoading>>

\* tiles posted before the load of this session is answered
CreateBeforeLoad == isLoading /\ Create

DeleteNext ==
  \/ CreateBeforeLoad \/ FetchTileData \/ CheckKeys
  \/ ShowDeleteConfirm \/ CancelConfirm \/ HandleDelete \/ DeleteAnswer

DeleteSpec == Init /\ [][DeleteNext]_vars

\* ---- a session of FolderTree: load, folder uploads and deletes --------------
\* the paths of the files of the folders the user uploads: the path z/x/y.jpg
\* as parseFilePath returns it
FolderPaths ==
  {[z |-> <<"9">>, x |-> <<"0">>, y |-> <<"1">>],
   [z |-> <<"9">>, x |-> <<"1">>, y |-> <<"1">>]}

FolderLists == UNION {[1..n -> FolderPaths] : n \in 1..MaxSessionFiles}

\* customRequestFolder on the uploader a == [s, coord, next]: the task gets
\* the coordinates of the path of its file
customRequestFolder(a, path, propIsUploading) ==
  [s |-> customRequest(a.s, a.next, propIsUploading),
   coord |-> [a.coord EXCEPT ![a.next] = path],
   next |-> a.next + 1]

\* the Upload control hands every file of the folder to customRequest
RECURSIVE postFolder(_, _, _)
postFolder(a, paths, propIsUploading) ==
  IF paths = <<>> THEN a
  ELSE postFolder(customRequestFolder(a, Head(paths), propIsUploading),
                  Tail(paths), propIsUploading)

\* the TileData records of the tasks of one onUploadSuccess call: result.data
\* of each POST, the row of the task's coordinate
TilesOfCall(call, coord) ==
  [i \in 1..Len(call) |-> Tile(coord[call[i]].z, coord[call[i]].x, coord[call[i]].y)]

\* rows the table holds before the session loads it
SeedBeforeLoad ==
  /\ isLoading
  /\ Cardinality(catalog) < MaxSeed
  /\ Create

\* the load at mount, answered with the tree of the rows
SessionLoad ==
  /\ FetchTileData
  /\ request'.route = "GET /tile"
  /\ response'.status = 200

\* the user picks a folder in the dialog of the folder uploader, enabled when
\* isUploading is false; every file of it passes beforeUploadFolder
SessionSelectFolder ==
  /\ ~isLoading
  /\ ~isUploading
  /\ acceptedFiles = <<>>
  /\ \E paths \in FolderLists :
       /\ nextTask + Len(paths) <= MaxSessionFiles + 1
       /\ Commit(beforeUploadAll(St, [i \in 1..Len(paths) |-> TRUE], 1, isUploading))
       /\ acceptedFiles' = paths
  /\ renderedUploading' = isUploading
  /\ UNCHANGED <<toPost, nextTask, fileCount, siblingDraining, isDeleting,
                 selectedKeys, taskCoord, treeVars, serverVars, isLoading,
                 deleterVars>>

\* the control posts the files of the folder: customRequestFolder builds the
\* tasks, the last push starts the drain
SessionPost ==
  /\ acceptedFiles # <<>>
  /\ LET a == postFolder([s |-> St, coord |-> taskCoord, next |-> nextTask],
                         acceptedFiles, renderedUploading)
     IN /\ Commit(a.s)
        /\ taskCoord' = a.coord
        /\ nextTask' = a.next
  /\ acceptedFiles' = <<>>
  /\ UNCHANGED <<renderedUploading, toPost, fileCount, siblingDraining,
                 isDeleting, selectedKeys, treeVars, serverVars, isLoading,
                 deleterVars>>

\* the POST of a task is handled by the service and answered, or never
\* reaches it; the drain loop goes on, and at its end onUploadSuccess hands
\* the records of the batch to updateTreeDataAfterUpload
SessionComplete ==
  /\ \E task \in inFlight, reached \in BOOLEAN, uploadOk \in BOOLEAN :
       LET slug == <<taskCoord[task].z, taskCoord[task].x, taskCoord[task].y>>
           r == POST_slug(catalog, store, slug, uploadOk)
           resp == IF ~reached THEN "networkError"
                   ELSE IF r.response.status \in {200, 201} THEN "created"
                   ELSE "httpError"
           s == drainResume(St, task, resp)
       IN /\ Commit(s)
          /\ IF reached THEN Handled(r, "POST /tile/slug", slug, {}, uploadOk)
             ELSE NoRequestHandled
          /\ treeData' = IF Len(s.calls) > Len(successCalls)
                           THEN updateTreeDataAfterUpload(treeData,
                                  TilesOfCall(s.calls[Len(s.calls)], taskCoord))
                         ELSE treeData
  /\ UNCHANGED <<renderedUploading, toPost, nextTask, fileCount, siblingDraining,
                 isDeleting, singleVars, tiles, origin, input, lastOp,
                 isLoading, deleterVars>>

\* onCheck of the tree: the user checks the box of one node when none is
\* checked, or unchecks the one that is
SessionCheck ==
  /\ ~isLoading
  /\ ~confirmOpen
  /\ IF checkedKeys = <<>>
       THEN \E key \in Range(NodeKeys(treeData)) : checkedKeys' = <<key>>
     ELSE checkedKeys' = <<>>
  /\ notice' = "none"
  /\ NoRequestHandled
  /\ UNCHANGED <<uploaderVars, treeData, isDeleting, isLoading, confirmOpen,
                 pending>>

SessionNext ==
  \/ SeedBeforeLoad \/ SessionLoad
  \/ SessionSelectFolder \/ SessionPost \/ SessionComplete
  \/ SessionCheck \/ ShowDeleteConfirm \/ HandleDelete \/ DeleteAnswer

SessionSpec == Init /\ [][SessionNext]_vars


\* ---- POST /tile/{z}/{x}/{y} await by await ----------------------------------
\* the paths of the requests that race: two coordinates
RaceSlugs == {<<<<"9">>, <<"0">>, <<"1">>>>, <<<<"9">>, <<"1">>, <<"1">>>>}

\* the table refuses a second row with a fileName it holds: fileName is unique
UniqueViolation(table, fileName) == \E row \in table : row.fileName = fileName

\* POST up to the answer of `await prisma.tile.findFirst`: the rows found
POST_findFirst(table, slug) ==
  {tile \in table : tile.fileName = <<Param(slug, 1), Param(slug, 2), Param(slug, 3)>>}

POST_create_BranchInverted(table, slug, existingTile, id) ==
  LET z == Param(slug, 1)
      x == Param(slug, 2)
      y == Param(slug, 3)
      row == [Tile(z, x, y) EXCEPT !.id = <<z, x, y, <<DigitChars[id + 1]>>>>]
  IN IF existingTile = {} THEN [catalog |-> table, status |-> 200]
     ELSE IF UniqueViolation(table, row.fileName)
       THEN [catalog |-> table, status |-> 500]
     ELSE [catalog |-> table \cup {row}, status |-> 201]

\* POST after the upload: the row found before is returned (200), or
\* prisma.tile.create inserts a row with an id of its own (201); a create the
\* table refuses throws and the catch block answers 500
POST_create(table, slug, existingTile, id) ==
  LET z == Param(slug, 1)
      x == Param(slug, 2)
      y == Param(slug, 3)
      row == [Tile(z, x, y) EXCEPT !.id = <<z, x, y, <<DigitChars[id + 1]>>>>]
  IN IF existingTile # {} THEN [catalog |-> table, status |-> 200]
     ELSE IF UniqueViolation(table, row.fileName)
       THEN [catalog |-> table, status |-> 500]
     ELSE [catalog |-> table \cup {row}, status |-> 201]

\* everything outside the table, the bucket and the requests under way
aroundPosts == <<uploaderVars, treeData, isDeleting, isLoading, deleterVars,
                 request, response>>

\* a request arrives, passes the checks of its path and looks the row up
PostFindFirst ==
  /\ \E i \in 1..MaxPosts, slug \in RaceSlugs :
       /\ posts[i].pc = "idle"
       /\ \A j \in 1..(i - 1) : posts[j].pc # "idle"
       /\ posts' = [posts EXCEPT ![i] =
                      [pc |-> "upload", slug |-> slug,
                       existingTile |-> POST_findFirst(catalog, slug),
                       uploaded |-> FALSE, status |-> 0]]
  /\ UNCHANGED <<catalog, store, aroundPosts>>

\* uploadFileStream of a request: the bucket takes the body as
\* `${fileName}.jpg`, or refuses it and the request is answered 500
PostUpload ==
  /\ \E i \in 1..MaxPosts, uploadOk \in BOOLEAN :
       /\ posts[i].pc = "upload"
       /\ store' = IF uploadOk
                     THEN store \cup {ObjectName(<<posts[i].slug[1], posts[i].slug[2],
                                                   posts[i].slug[3]>>, ".jpg")}
                   ELSE store
       /\ posts' = [posts EXCEPT ![i].pc = IF uploadOk THEN "create" ELSE "done",
                                 ![i].uploaded = uploadOk,
                                 ![i].status = IF uploadOk THEN 0 ELSE 500]
  /\ UNCHANGED <<catalog, aroundPosts>>

\* the rest of a request: the row found is returned or a row is created
PostCreate ==
  /\ \E i \in 1..MaxPosts :
       /\ posts[i].pc = "create"
       /\ LET r == POST_create(catalog, posts[i].slug, posts[i].existingTile, i)
          IN /\ catalog' = r.catalog
             /\ posts' = [posts EXCEPT ![i].pc = "done", ![i].status = r.status]
  /\ UNCHANGED <<store, aroundPosts>>

RaceNext == PostFindFirst \/ PostUpload \/ PostCreate

RaceSpec == Init /\ [][RaceNext]_vars

\* ---- helpers of the properties ------------------------------------------
Last(seq) == seq[Len(seq)]

Issued == inFlight \cup {t \in Tasks : outcome[t] # "none"}

OkTasks == {t \in Tasks : outcome[t] = "ok"}
FailedTasks == {t \in Tasks : outcome[t] = "fail"}

\* no drain loop is active and nothing is waiting to be posted
Quiet == inFlight = {} /\ toPost = 0

CountPercent(p) == Cardinality({i \in 1..Len(progress) : progress[i].percent = p})

\* the step completes task t
Completes(t) == outcome[t] = "none" /\ outcome'[t] # "none"

\* the step ends a drain loop: its request returned and no other was issued
EndsDrain == Cardinality(inFlight') < Cardinality(inFlight)

\* ---- C1 --------------------------------------------------------------------
\* C1: at most one drain loop is active at any time, hence at most one create
\* request is outstanding at any time.
C1_OneDrainLoop == Cardinality(inFlight) <= 1

\* ---- C2 --------------------------------------------------------------------
\* C2: every submitted batch runs to completion: once the accepted files of a
\* selection are in the queue, the queue eventually is empty with no request
\* outstanding, every task has returned and the completion step has reset the
\* total counter.
C2_BatchRunsToCompletion ==
  (toPost = 0 /\ uploadQueue # <<>>)
    ~> (uploadQueue = <<>> /\ inFlight = {} /\ totalFiles = 0
        /\ \A t \in 1..(nextTask - 1) : outcome[t] # "none")

\* ---- C3 --------------------------------------------------------------------
\* C3: when the drain of a batch is over, onUploadSuccess has been invoked
\* exactly once if some task of the batch succeeded and not at all otherwise,
\* its argument is the list of the records of the tasks that succeeded, and
\* the accumulated list is empty.
C3_CallbackOncePerBatch ==
  (Quiet /\ uploadQueue = <<>>) =>
     /\ successCalls = IF succeeded = <<>> THEN <<>> ELSE <<succeeded>>
     /\ uploadedTiles = <<>>

\* ---- C4 --------------------------------------------------------------------
\* C4: a step in which a task fails reports the failure to that task's onError
\* and leaves the drain loop running: when a task is waiting in the queue the
\* head of the queue is issued by the same step.
C4_FailureDoesNotStopDrain ==
  [][\A t \in Tasks :
       (Completes(t) /\ outcome'[t] = "fail") =>
          /\ t \in errorCalls'
          /\ uploadQueue # <<>> =>
               /\ Head(uploadQueue) \in inFlight'
               /\ uploadQueue' = Tail(uploadQueue)]_vars

\* a task failed and a task queued behind it was executed afterwards
C4_Witness ==
  \E a, b \in Tasks : a < b /\ outcome[a] = "fail" /\ a \in errorCalls
                      /\ outcome[b] = "ok"

\* ---- C5 --------------------------------------------------------------------
\* C5: tasks are issued in the order they were pushed, and the request of a
\* task is not issued before the requests of all tasks pushed earlier have
\* completed.
C5_StrictFifo ==
  \A b \in Issued : \A a \in 1..(b - 1) : outcome[a] # "none"

\* ---- C6 --------------------------------------------------------------------
\* C6: whenever the drain of a batch of 5 tasks (totalFiles = 5, all five
\* pushed by one selection) ends with one task failed and four succeeded,
\* there has been one completion callback listing the four records, and an
\* update with percent = 100 has been published exactly once in that batch.
C6_FiveTasksOneFailure ==
  [][(EndsDrain /\ inFlight' = {} /\ uploadQueue' = <<>> /\ totalFiles = 5
        /\ finished' = 5 /\ Len(succeeded') = 4) =>
          /\ successCalls' = <<succeeded'>>
          /\ CountPercent(100)' = 1]_vars

\* ---- C7 --------------------------------------------------------------------
\* p is n / total * 100 rounded to the nearest integer, halves upwards
\* (0 by convention when total is 0)
IsRounded(p, n, total) ==
  IF total > 0
  THEN /\ (2 * p - 1) * total <= 200 * n
       /\ 200 * n < (2 * p + 1) * total
  ELSE p = 0

Update(uploading, p) == [isUploading |-> uploading, percent |-> p]

C8_ProgressMonotone ==
  \A i \in 1..(Len(progress) - 1) :
    progress[i + 1] # Update(FALSE, 0) =>
      progress[i].percent <= progress[i + 1].percent

\* ---- C9 --------------------------------------------------------------------
\* C9: every published update carries an integer percent in 0..100.
C9_PercentInRange ==
  \A i \in 1..Len(progress) : progress[i].percent \in 0..100

\* ---- C10 -------------------------------------------------------------------
\* C10: a step that ends a drain loop leaves {isUploading: false, percent: 100}
\* as the last published update, the total counter at zero and the accumulated
\* list empty; a selection made while the counter is zero sets it, at its first
\* accepted file, to the number of files of that selection, and starts with an
\* empty accumulated list.
C10_DrainEndResets ==
  [][/\ EndsDrain =>
          /\ Last(progress') = Update(FALSE, 100)
          /\ totalFiles' = 0
          /\ uploadedTiles' = <<>>
     /\ (toPost = 0 /\ toPost' > 0 /\ totalFiles = 0) =>
          /\ totalFiles' = fileCount'
          /\ uploadedTiles' = <<>>]_vars

\* a second selection, made after a drain that uploaded something, has set
\* the counter to its own number of files
C10_Witness ==
  /\ toPost > 0 /\ OkTasks # {} /\ inFlight = {}
  /\ uploadQueue = <<>> /\ uploadedTiles = <<>>
  /\ totalFiles = fileCount
  /\ progress = <<Update(FALSE, 0)>>

\* ---- C11 -------------------------------------------------------------------
\* an upload batch of one of the two uploaders is between its start and its end
UploadDraining == inFlight # {} \/ siblingDraining

\* C11: at most one index-mutating operation is in flight: no delete request
\* is outstanding while an upload batch drains, and the other way round.
C11_OneMutatingOperation == ~(isDeleting /\ UploadDraining)

\* ---- C12 -------------------------------------------------------------------
\* C12: every task ever placed in the upload queue carries coordinates z, x
\* and y that consist of decimal digits only.
C12_QueuedCoordinatesAreDigits ==
  \A t \in 1..(nextTask - 1) :
    IsDigits(taskCoord[t].z) /\ IsDigits(taskCoord[t].x) /\ IsDigits(taskCoord[t].y)

\* ---- helpers of the tree properties ------------------------------------------
\* the orderings of a list of distinct records
Orderings(list) ==
  {p \in [1..Len(list) -> Range(list)] : Range(p) = Range(list)}

\* number of nodes of a list that carry the key
Count(nodes, key) == Cardinality({i \in 1..Len(nodes) : nodes[i].key = key})

\* number of x nodes with key (z, x) below the z nodes of the tree, and number
\* of leaves with key (z, x, y) below its x nodes
CountX(tree, z, x) ==
  Cardinality({<<i, j>> \in (1..Len(tree)) \X (1..MaxRecords + 1) :
     /\ j <= Len(tree[i].children)
     /\ tree[i].key = buildNodeKey1(z)
     /\ tree[i].children[j].key = buildNodeKey2(z, x)})

CountY(tree, z, x, y) ==
  Cardinality({<<i, j, k>> \in
       (1..Len(tree)) \X (1..MaxRecords + 1) \X (1..MaxRecords + 1) :
     /\ j <= Len(tree[i].children)
     /\ k <= Len(tree[i].children[j].children)
     /\ tree[i].key = buildNodeKey1(z)
     /\ tree[i].children[j].key = buildNodeKey2(z, x)
     /\ tree[i].children[j].children[k].key = buildNodeKey3(z, x, y)})

\* total number of x nodes and of leaves of the tree
RECURSIVE SumLen(_)
SumLen(nodes) ==
  IF nodes = <<>> THEN 0 ELSE Len(Head(nodes).children) + SumLen(Tail(nodes))

AllXNodes(tree) == SumLen(tree)

RECURSIVE AllLeaves(_)
AllLeaves(tree) ==
  IF tree = <<>> THEN 0 ELSE SumLen(Head(tree).children) + AllLeaves(Tail(tree))

\* the siblings' own segments are strictly ascending as integers
Ascending(nodes, part) ==
  \A i \in 1..(Len(nodes) - 1) :
    parseInt(nodes[i].key[part]) < parseInt(nodes[i + 1].key[part])

\* ---- C13 -------------------------------------------------------------------
\* C13: after any sequence of insert and removeMany applied to build(R0) the
\* tree is the image of the record set: one leaf (z,x,y) for each record and no
\* other leaf, one node (z,x) iff some record has that (z,x), one node z iff
\* some record has that z.
C13_TreeIsImageOfRecords ==
  /\ \A t \in TileRecords :
       CountY(treeData, t.z, t.x, t.y) = IF t \in tiles THEN 1 ELSE 0
  /\ \A z \in ZSegs, x \in XSegs :
       CountX(treeData, z, x) =
         IF \E t \in tiles : t.z = z /\ t.x = x THEN 1 ELSE 0
  /\ \A z \in ZSegs :
       Count(treeData, buildNodeKey1(z)) =
         IF \E t \in tiles : t.z = z THEN 1 ELSE 0
  /\ AllLeaves(treeData) = Cardinality(tiles)
  /\ AllXNodes(treeData) = Cardinality({<<t.z, t.x>> : t \in tiles})
  /\ Len(treeData) = Cardinality({t.z : t \in tiles})

C13_Witness ==
  /\ lastOp = "remove"
  /\ origin = "mixed"
  /\ Cardinality(tiles) = 2
  /\ Len(treeData) = 2

\* ---- C14 -------------------------------------------------------------------
\* C14: at every level of every tree produced by build or insert the siblings'
\* own coordinate values are strictly ascending as integers.
C14_SiblingsStrictlyAscending ==
  /\ Ascending(treeData, 2)
  /\ \A i \in 1..Len(treeData) :
       /\ Ascending(treeData[i].children, 4)
       /\ \A j \in 1..Len(treeData[i].children) :
            Ascending(treeData[i].children[j].children, 6)

\* ---- C15 -------------------------------------------------------------------
\* C15: insert is idempotent: inserting a record a second time changes nothing,
\* and the tree has one leaf of its coordinate.
C15_InsertIdempotent ==
  \A r \in TileRecords :
    LET once == addTileToTree(treeData, r)
    IN /\ addTileToTree(once, r) = once
       /\ CountY(once, r.z, r.x, r.y) = 1

C15_Witness ==
  /\ lastOp = "reinsert"
  /\ \E i \in 1..Len(treeData) : \E j \in 1..Len(treeData[i].children) :
       Len(treeData[i].children[j].children) = 2

\* ---- C16 -------------------------------------------------------------------
\* C16: no z node and no x node of a reachable tree has an empty children
\* list.
C16_NoEmptyInnerNode ==
  \A i \in 1..Len(treeData) :
    /\ treeData[i].children # <<>>
    /\ \A j \in 1..Len(treeData[i].children) :
         treeData[i].children[j].children # <<>>

\* a removal took the last leaf of an x node that was the last of its z node,
\* and other z nodes remain
C16_Witness == lastOp = "removeCascade" /\ treeData # <<>>

\* ---- C17 -------------------------------------------------------------------
\* C17: the tree obtained by inserting the records of R one at a time into the
\* empty tree, in any order, equals build(R).
C17_InsertsEqualBuild ==
  origin = "insert" =>
    \A tileList \in Orderings(input) : treeData = buildTreeFromTiles(tileList)

\* ---- C18 -------------------------------------------------------------------
\* C18: removeMany(build(R), R) is the empty tree: whatever the order of the
\* list, and in the step of the delete callback that removes the records the
\* tree was built from.
C18_RemoveAllOfBuild ==
  /\ lastOp = "build" =>
       \A tilesToRemove \in Orderings(input) :
         removeTilesFromTree(treeData, tilesToRemove) = <<>>
  /\ lastOp = "removeAll" => treeData = <<>>

C18_Witness == lastOp = "removeAll" /\ tiles = {} /\ treeData = <<>>

\* ---- C19 -------------------------------------------------------------------
\* C19: build gives the same tree for every ordering of the same record set.
C19_BuildOrderIndependent ==
  lastOp = "build" =>
    \A tileList \in Orderings(input) : buildTreeFromTiles(tileList) = treeData

\* ---- C20 -------------------------------------------------------------------
\* C20: removing records whose coordinates are absent from the tree (no z
\* node, no (z,x) node or no leaf) returns a tree equal to the input tree.
C20_RemoveAbsentIsNoOp ==
  [][lastOp' = "removeAbsent" =>
       /\ treeData' = treeData
       /\ \A t \in TileRecords \ tiles : removeTileFromTree(treeData, t) = treeData]_vars

C20_Witness ==
  /\ lastOp = "removeAbsent"
  /\ Cardinality(tiles) = 2
  /\ Len(treeData) = 1
  /\ Len(treeData[1].children) = 1

\* ---- helpers of the resolver properties ------------------------------------
\* a key of one of the three levels with decimal segments: z_<z>,
\* z_<z>_x_<x> or z_<z>_x_<x>_y_<y>
IsCoordinateKey(key) ==
  LET parts == split(key, "_")
  IN /\ Len(parts) \in {2, 4, 6}
     /\ parts[1] = <<"z">> /\ IsDigits(parts[2])
     /\ Len(parts) >= 4 => parts[3] = <<"x">> /\ IsDigits(parts[4])
     /\ Len(parts) >= 6 => parts[5] = <<"y">> /\ IsDigits(parts[6])

\* the coordinate prefix such a key stands for: <<z>>, <<z, x>> or <<z, x, y>>
PrefixOf(key) ==
  LET parts == split(key, "_")
  IN [i \in 1..(Len(parts) \div 2) |-> parts[2 * i]]

StrictPrefix(a, b) == Len(a) < Len(b) /\ SubSeq(b, 1, Len(a)) = a

Ancestor(other, key) == StrictPrefix(PrefixOf(other), PrefixOf(key))

AllCoordinateKeys(keys) == \A key \in Range(keys) : IsCoordinateKey(key)

\* ---- C21 -------------------------------------------------------------------
\* C21: for a selection of coordinate keys of any mix of levels, no key kept by
\* filterHighestLevelKeys has an ancestor in the selection; when one selected
\* key is the ancestor of all the others (z, z/x, z/x/y), it alone is kept.
C21_NoRedundantKeyKept ==
  AllCoordinateKeys(checkedKeys) =>
    LET kept == filterHighestLevelKeys(checkedKeys)
    IN /\ \A key \in Range(kept) :
            \A other \in Range(checkedKeys) : ~Ancestor(other, key)
       /\ \A top \in Range(checkedKeys) :
            (\A key \in Range(checkedKeys) \ {top} : Ancestor(top, key))
              => kept = <<top>>

\* handleDelete sent z=9 alone for a selection of z=9, one of its x nodes and
\* a leaf below that x node
C21_Witness ==
  /\ pending = <<Where(<<"9">>, Absent, Absent)>>
  /\ Len(checkedKeys) = 3
  /\ AllCoordinateKeys(checkedKeys)
  /\ Ancestor(checkedKeys[1], checkedKeys[2])
  /\ Ancestor(checkedKeys[2], checkedKeys[3])

\* ---- C22 -------------------------------------------------------------------
\* C22: for a selection of coordinate keys, the keys filterHighestLevelKeys
\* keeps are selected keys, each once, and every selected key without an
\* ancestor in the selection is kept.
C22_FilterNotMerge ==
  AllCoordinateKeys(checkedKeys) =>
    LET kept == filterHighestLevelKeys(checkedKeys)
    IN /\ Range(kept) \subseteq Range(checkedKeys)
       /\ Len(kept) = Cardinality(Range(kept))
       /\ \A key \in Range(checkedKeys) :
            (\A other \in Range(checkedKeys) : ~Ancestor(other, key))
              => key \in Range(kept)

\* handleDelete sent both x nodes of z=9 for a selection of the two
C22_Witness ==
  /\ pending = <<Where(<<"9">>, <<"0">>, Absent), Where(<<"9">>, <<"1">>, Absent)>>
  /\ Len(checkedKeys) = 2
  /\ AllCoordinateKeys(checkedKeys)

\* ---- C23 -------------------------------------------------------------------
\* the minimized deletion set of a selection: its coordinate keys that have no
\* ancestor among its coordinate keys
Minimized(keys) ==
  SelectSeq(keys, LAMBDA key :
    /\ IsCoordinateKey(key)
    /\ \A other \in Range(keys) : IsCoordinateKey(other) => ~Ancestor(other, key))

\* C23: when the minimized deletion set of the selection is empty, a click on
\* Delete or on OK shows an error, opens no dialog, sends no request and
\* leaves the tree and the catalog as they are.
C23_NothingToDelete ==
  [][((ShowDeleteConfirm \/ HandleDelete) /\ Minimized(checkedKeys) = <<>>)
       => /\ notice' \in {"selectFirst", "nothingValid", "invalidFormat"}
          /\ ~confirmOpen'
          /\ pending' = <<>>
          /\ treeData' = treeData
          /\ catalog' = catalog]_vars

\* ---- C24 -------------------------------------------------------------------
\* C24: when DELETE /tile answers with success, the tree afterwards has no
\* leaf for any record of the returned list, has every leaf it had for the
\* other records, and has no z node or x node without children.
C24_DeletedRecordsLeaveTheTree ==
  [][(request'.route = "DELETE /tile" /\ response'.status = 200)
       => /\ \A tile \in TileRecords :
               CountY(treeData', tile.z, tile.x, tile.y) =
                 IF tile \in Range(response'.data) THEN 0
                 ELSE CountY(treeData, tile.z, tile.x, tile.y)
          /\ \A i \in 1..Len(treeData') :
               /\ treeData'[i].children # <<>>
               /\ \A j \in 1..Len(treeData'[i].children) :
                    treeData'[i].children[j].children # <<>>]_vars

\* a delete removed a leaf and its x node and left another x node of the
\* same z node
C24_Witness ==
  /\ request.route = "DELETE /tile"
  /\ response.status = 200
  /\ notice = "deleted"
  /\ Len(response.data) = 1
  /\ Len(treeData) = 1
  /\ Len(treeData[1].children) = 1
  /\ Cardinality(catalog) = 2

\* ---- helpers of the catalog properties -------------------------------------
\* a record matches a coordinate prefix: equal on every segment the prefix has
MatchesPrefix(tile, coord) ==
  /\ tile.z = coord.z
  /\ coord.x # Absent => tile.x = coord.x
  /\ coord.y # Absent => tile.y = coord.y

\* the path of the single-prefix request for a prefix
SlugOf(coord) ==
  IF coord.x = Absent THEN <<coord.z>>
  ELSE IF coord.y = Absent THEN <<coord.z, coord.x>>
  ELSE <<coord.z, coord.x, coord.y>>

\* the single-prefix delete applied once per prefix, one after the other, the
\* bucket answering every call: the table left and the union of the lists
RECURSIVE OneByOne(_, _, _)
OneByOne(table, coordinates, deleted) ==
  IF coordinates = <<>> THEN [catalog |-> table, deleted |-> deleted]
  ELSE LET r == DELETE_slug(table, {}, SlugOf(Head(coordinates)), {})
       IN OneByOne(r.catalog, Tail(coordinates),
                   deleted \cup Range(r.response.data))

\* ---- C25 -------------------------------------------------------------------
\* C25: when DELETE /tile answers with success, the table has lost exactly the
\* records that match at least one coordinate of the body, the returned list
\* holds each of them once, and table and list are those of the single-prefix
\* delete applied once per coordinate.
C25_BatchDeleteIsUnionOfPrefixDeletes ==
  [][(request'.route = "DELETE /tile" /\ response'.status = 200)
       => LET coordinates == request'.args
              matched == {tile \in catalog :
                            \E i \in 1..Len(coordinates) :
                              MatchesPrefix(tile, coordinates[i])}
              single == OneByOne(catalog, coordinates, {})
          IN /\ catalog' = catalog \ matched
             /\ Range(response'.data) = matched
             /\ Len(response'.data) = Cardinality(matched)
             /\ catalog' = single.catalog
             /\ Range(response'.data) = single.deleted]_vars

\* a body with z=9/x=0 and then z=9 deleted three records and left the
\* record of z=10
C25_Witness ==
  /\ request.route = "DELETE /tile"
  /\ request.args = <<Where(<<"9">>, <<"0">>, Absent), Where(<<"9">>, Absent, Absent)>>
  /\ response.status = 200
  /\ Len(response.data) = 3
  /\ Cardinality(catalog) = 1

\* ---- C26 -------------------------------------------------------------------
\* C26: when a delete by path or by coordinate list answers with success and
\* no call to the bucket failed, the bucket afterwards holds no object stored
\* for any of the deleted records.
C26_DeleteRemovesPayloads ==
  [][(/\ request'.route \in {"DELETE /tile/slug", "DELETE /tile"}
      /\ response'.status = 200
      /\ request'.failing = {})
       => \A tile \in Range(response'.data) :
            \A name \in store' : name[1] # tile.fileName]_vars

\* ---- C27 -------------------------------------------------------------------
\* the rows a path of one to three segments matches
MatchedBySlug(table, slug) ==
  {tile \in table :
     MatchesPrefix(tile, Where(Param(slug, 1), Param(slug, 2), Param(slug, 3)))}

\* C27: when the deleteFile call fails for one or more rows a DELETE by path
\* matches, every matching row is deleted all the same, the answer is a
\* success with the matching rows, and it reports the rows whose file was not
\* deleted.
C27_FileErrorDoesNotFailDelete ==
  [][(/\ request'.route = "DELETE /tile/slug"
      /\ request'.failing \cap MatchedBySlug(catalog, request'.args) # {})
       => LET matching == MatchedBySlug(catalog, request'.args)
          IN /\ catalog' = catalog \ matching
             /\ response'.status = 200
             /\ Range(response'.data) = matching
             /\ response'.fileDeleteErrors = request'.failing \cap matching]_vars

\* a delete of two or more rows in which one file could not be deleted
C27_Witness ==
  /\ request.route = "DELETE /tile/slug"
  /\ response.status = 200
  /\ Len(response.data) >= 2
  /\ response.fileDeleteErrors # {}
  /\ Range(response.data) \cap catalog = {}

\* ---- C28 -------------------------------------------------------------------
\* C28: a POST for a coordinate that has a row, the upload accepted, answers
\* with success and a record of that coordinate and leaves the table as it
\* was, with one row for the coordinate; and after any successful POST the same
\* POST again leaves the table unchanged.
C28_CreateIsUpsert ==
  [][(request'.route = "POST /tile/slug" /\ request'.ok)
       => LET slug == request'.args
              rows(table) == {tile \in table : <<tile.z, tile.x, tile.y>> = slug}
          IN /\ rows(catalog) # {} =>
                  /\ response'.status \in {200, 201}
                  /\ Len(response'.data) = 1
                  /\ <<response'.data[1].z, response'.data[1].x,
                       response'.data[1].y>> = slug
                  /\ catalog' = catalog
                  /\ Cardinality(rows(catalog')) = 1
             /\ response'.status \in {200, 201} =>
                  POST_slug(catalog', store', slug, TRUE).catalog = catalog']_vars

\* a POST for a coordinate that had a row returned that row
C28_Witness ==
  /\ request.route = "POST /tile/slug"
  /\ request.ok
  /\ response.status = 200
  /\ Len(response.data) = 1
  /\ response.data[1] \in catalog

\* ---- C29 -------------------------------------------------------------------
\* C29: when the load at mount fails (fetch throws, or GET /tile answers
\* without success), the tree stays empty, the error message is shown and
\* the loading flag is cleared.
C29_FailedLoadBuildsNothing ==
  [][(FetchTileData /\ ~(request'.route = "GET /tile" /\ response'.status = 200))
       => /\ treeData' = <<>>
          /\ notice' = "loadFailed"
          /\ ~isLoading']_vars

\* the load failed although the table holds rows
C29_Witness ==
  /\ catalog # {}
  /\ notice = "loadFailed"
  /\ ~isLoading
  /\ treeData = <<>>
  /\ ~(request.route = "GET /tile" /\ response.status = 200)

\* ---- C30 -------------------------------------------------------------------
\* C30: every checked key that is not a coordinate key (two, four or six
\* segments z, x, y with decimal values) is decoded to null by
\* parseKeyToCoordinate.
C30_MalformedKeysRejected ==
  \A i \in 1..Len(checkedKeys) :
    ~IsCoordinateKey(checkedKeys[i])
      => parseKeyToCoordinate(checkedKeys[i]) = NullCoordinate

\* ---- C31 -------------------------------------------------------------------
\* the coordinate prefixes of the nodes of a tree: <<z>>, <<z, x>>, <<z, x, y>>
NodePrefixes(tree) ==
  {<<tree[i].title>> : i \in 1..Len(tree)}
    \cup UNION {{<<tree[i].title, tree[i].children[j].title>> :
                   j \in 1..Len(tree[i].children)} : i \in 1..Len(tree)}
    \cup UNION {UNION {{<<tree[i].title, tree[i].children[j].title,
                          tree[i].children[j].children[k].title>> :
                          k \in 1..Len(tree[i].children[j].children)} :
                   j \in 1..Len(tree[i].children)} : i \in 1..Len(tree)}

\* the key string buildNodeKey renders for a prefix of level 1, 2 or 3
BuildKey(p) ==
  keyString(IF Len(p) = 1 THEN buildNodeKey1(p[1])
            ELSE IF Len(p) = 2 THEN buildNodeKey2(p[1], p[2])
            ELSE buildNodeKey3(p[1], p[2], p[3]), 1)

\* the coordinate of a prefix: the segments it has, the others undefined
CoordinateOfPrefix(p) ==
  [z |-> p[1],
   x |-> IF Len(p) >= 2 THEN p[2] ELSE Absent,
   y |-> IF Len(p) >= 3 THEN p[3] ELSE Absent]

\* C31: over the prefixes of the nodes of the tree, two prefixes with the same
\* key string are the same prefix, the key string of a prefix is a key the
\* tree reports, and parseKeyToCoordinate decodes it to the segments of that
\* prefix and no others.
C31_CodecRoundTrips ==
  LET prefixes == NodePrefixes(treeData)
  IN /\ \A p, q \in prefixes : BuildKey(p) = BuildKey(q) => p = q
     /\ \A p \in prefixes :
          /\ BuildKey(p) \in Range(NodeKeys(treeData))
          /\ parseKeyToCoordinate(BuildKey(p)) = CoordinateOfPrefix(p)

\* a tree with the z nodes 9 and 10 and the leaves 1 and 01 under one x node,
\* keys of the three levels checked and decoded for a request
C31_Witness ==
  /\ Len(treeData) = 2
  /\ \E i \in 1..2 : \E j \in 1..Len(treeData[i].children) :
       Len(treeData[i].children[j].children) = 2
  /\ \E a, b, c \in Range(checkedKeys) :
       Len(PrefixOf(a)) = 1 /\ Len(PrefixOf(b)) = 2 /\ Len(PrefixOf(c)) = 3
  /\ pending # <<>>

\* ---- C32 -------------------------------------------------------------------
\* a coordinate that passes the checks of DELETE /tile: z given, and x given
\* when y is
PassesChecks(coord) ==
  Truthy(coord.z) /\ (Truthy(coord.y) => Truthy(coord.x))

\* C32: when the body of DELETE /tile holds coordinates that pass the checks,
\* one of which matches no row while another matches some, the answer is a
\* success, and every row matching a coordinate of the body is deleted and
\* returned.
C32_UnmatchedPrefixNotFatal ==
  [][(/\ request'.route = "DELETE /tile"
      /\ \A i \in 1..Len(request'.args) : PassesChecks(request'.args[i])
      /\ \E i \in 1..Len(request'.args) :
           \A tile \in catalog : ~MatchesPrefix(tile, request'.args[i])
      /\ \E i \in 1..Len(request'.args) :
           \E tile \in catalog : MatchesPrefix(tile, request'.args[i]))
       => LET matched == {tile \in catalog : \E i \in 1..Len(request'.args) :
                            MatchesPrefix(tile, request'.args[i])}
          IN /\ response'.status = 200
             /\ Range(response'.data) = matched
             /\ catalog' = catalog \ matched]_vars

\* a batch delete returned rows although one of its coordinates matched no
\* row of the table
C32_Witness ==
  /\ request.route = "DELETE /tile"
  /\ response.status = 200
  /\ Len(response.data) >= 1
  /\ \E i \in 1..Len(request.args) :
       \A tile \in catalog \cup Range(response.data) :
         ~MatchesPrefix(tile, request.args[i])
  /\ catalog # {}

\* ---- C33 -------------------------------------------------------------------
\* the coordinates of the leaves of a tree
LeafCoordinates(tree) == {p \in NodePrefixes(tree) : Len(p) = 3}

\* the session has loaded, and no upload and no delete is outstanding
SessionQuiet ==
  /\ ~isLoading
  /\ acceptedFiles = <<>>
  /\ uploadQueue = <<>>
  /\ inFlight = {}
  /\ ~isUploading
  /\ ~isDeleting

\* C33: after the load, whenever no upload batch and no delete of the session
\* is outstanding, the leaves of the tree are the coordinates of the rows of
\* the table.
C33_IndexAgreesWithCatalog ==
  SessionQuiet =>
    LeafCoordinates(treeData) = {<<tile.z, tile.x, tile.y>> : tile \in catalog}

\* ---- C34 -------------------------------------------------------------------
\* C34: when DELETE /tile answers with an error status, the table holds the
\* rows it held before the request.
C34_BatchDeleteAllOrNothing ==
  [][(request'.route = "DELETE /tile" /\ response'.status \in {400, 404, 500})
       => catalog' = catalog]_vars

\* ---- C35 -------------------------------------------------------------------
\* number of places at which the onUploadSuccess calls of the batch hold task t
Delivered(t) ==
  Cardinality({<<i, j>> \in (1..Len(successCalls)) \X (1..MaxTasks + 1) :
     j <= Len(successCalls[i]) /\ successCalls[i][j] = t})

\* C35: no record is handed to onUploadSuccess twice; the record of every task
\* that succeeded was handed to it or waits in uploadedTilesRef, never both;
\* only records of tasks that succeeded are handed over; and when no request
\* is outstanding none waits.
C35_EachRecordDeliveredOnce ==
  /\ \A t \in Tasks : Delivered(t) <= 1
  /\ \A t \in Tasks :
       Delivered(t) = 1 => t \in Range(succeeded) /\ outcome[t] = "ok"
  /\ \A t \in Range(succeeded) :
       Delivered(t)
         + Cardinality({i \in 1..Len(uploadedTiles) : uploadedTiles[i] = t}) = 1
  /\ inFlight = {} => uploadedTiles = <<>>

\* two drain loops ended one after the other, each with a call of
\* onUploadSuccess, and a task of the batch failed
C35_Witness ==
  /\ Len(successCalls) >= 2
  /\ inFlight = {}
  /\ uploadQueue = <<>>
  /\ FailedTasks # {}
  /\ Cardinality(OkTasks) >= 2

\* ---- C36 -------------------------------------------------------------------
\* C36: while a create request of the queue is outstanding, the update
\* onProgressChange published last has isUploading = true, and so has the
\* state handleUploadProgressChange wrote.
C36_BusyWhileWorkOutstanding ==
  inFlight # {} =>
    /\ isUploading
    /\ progress # <<>>
    /\ Last(progress).isUploading

\* ---- C37 -------------------------------------------------------------------
\* the records of a universe that match the coordinate of one or more keys
MatchedByKeys(universe, keys) ==
  {tile \in universe :
     \E key \in Range(keys) : MatchesPrefix(tile, parseKeyToCoordinate(key))}

\* C37: for a selection of coordinate keys, every selected key is kept by
\* filterHighestLevelKeys or has an ancestor that is kept, and the records
\* matching a kept key are the records matching a selected key, whatever rows
\* the table holds.
C37_MinimizationPreservesDeleted ==
  AllCoordinateKeys(checkedKeys) =>
    LET kept == filterHighestLevelKeys(checkedKeys)
    IN /\ \A key \in Range(checkedKeys) :
            \/ key \in Range(kept)
            \/ \E other \in Range(kept) : Ancestor(other, key)
       /\ MatchedByKeys(TileRecords \cup ServerTiles, kept)
            = MatchedByKeys(TileRecords \cup ServerTiles, checkedKeys)
       /\ MatchedByKeys(catalog, kept) = MatchedByKeys(catalog, checkedKeys)

\* handleDelete sent two coordinates for a selection of three keys, one of
\* them below another
C37_Witness ==
  /\ Len(checkedKeys) = 3
  /\ AllCoordinateKeys(checkedKeys)
  /\ Len(pending) = 2
  /\ \E a, b \in Range(checkedKeys) : Ancestor(a, b)
  /\ MatchedByKeys(catalog, checkedKeys) # {}

\* ---- C38 -------------------------------------------------------------------
\* the rows of the table for the coordinate of a path
RowsOf(slug) == {tile \in catalog : <<tile.z, tile.x, tile.y>> = slug}

LeafNodes(tree) ==
  UNION {UNION {Range(tree[i].children[j].children) :
                  j \in 1..Len(tree[i].children)} : i \in 1..Len(tree)}

SiblingKeys(nodes) == [i \in 1..Len(nodes) |-> nodes[i].key]

\* the children of the node of a list that carries the key
ChildrenOf(nodes, key) ==
  IF FindIndex(nodes, key) = 0 THEN <<>> ELSE nodes[FindIndex(nodes, key)].children

\* the leaves below the x node of the z node that the key of a leaf names
SiblingsOfLeaf(tree, key) ==
  ChildrenOf(ChildrenOf(tree, SubSeq(key, 1, 2)), SubSeq(key, 1, 4))

\* the nodes of `after` are nodes of `before`, in the order they had there
KeptOrder(before, after) ==
  SiblingKeys(after) = SelectSeq(SiblingKeys(before),
                              LAMBDA key : key \in Range(SiblingKeys(after)))

SiblingsKeepOrder(before, after) ==
  /\ KeptOrder(before, after)
  /\ \A i \in 1..Len(after) :
       LET xsBefore == ChildrenOf(before, after[i].key)
           xsAfter == after[i].children
       IN /\ KeptOrder(xsBefore, xsAfter)
          /\ \A j \in 1..Len(xsAfter) :
               KeptOrder(ChildrenOf(xsBefore, xsAfter[j].key), xsAfter[j].children)

\* a list and the list read backwards
BothWays(list) == {list, [i \in 1..Len(list) |-> list[Len(list) + 1 - i]]}

\* the values of the siblings of every level ascend, strictly or not
NotDescending(nodes, part) ==
  \A i \in 1..(Len(nodes) - 1) :
    parseInt(nodes[i].key[part]) <= parseInt(nodes[i + 1].key[part])

TreeSorted(tree, strictly) ==
  LET InOrder(nodes, part) == IF strictly THEN Ascending(nodes, part)
                              ELSE NotDescending(nodes, part)
  IN /\ InOrder(tree, 2)
     /\ \A i \in 1..Len(tree) :
          /\ InOrder(tree[i].children, 4)
          /\ \A j \in 1..Len(tree[i].children) :
               InOrder(tree[i].children[j].children, 6)

\* C39: removeMany changes only what it removes. For every reachable tree and
\* every list of records to remove, in the order of the server's answer and
\* in the reverse order: each leaf whose coordinate
\* is not in the list is a leaf of the result under the same key with the same
\* tileId and fileName, the result has no leaf the tree did not have, the
\* nodes that remain stand in the order they had at every level, the siblings
\* of the result ascend by integer value, and strictly so if those of the
\* tree did.
C39_RemoveManyFrame ==
  \A removed \in {set \in SUBSET TileRecords : Cardinality(set) \in 1..MaxRemove} :
    \A tilesToRemove \in BothWays(SelectSeq(AllTiles, LAMBDA t : t \in removed)) :
      LET after == removeTilesFromTree(treeData, tilesToRemove)
      IN /\ \A leaf \in LeafNodes(treeData) :
              (\A t \in removed : leaf.key # buildNodeKey3(t.z, t.x, t.y))
                => /\ leaf \in LeafNodes(after)
                   /\ Count(SiblingsOfLeaf(after, leaf.key), leaf.key)
                        = Count(SiblingsOfLeaf(treeData, leaf.key), leaf.key)
         /\ LeafNodes(after) \subseteq LeafNodes(treeData)
         /\ SiblingsKeepOrder(treeData, after)
         /\ TreeSorted(after, FALSE)
         /\ TreeSorted(treeData, TRUE) => TreeSorted(after, TRUE)

\* a removal took a leaf and left two leaves side by side under an x node
C39_Witness ==
  /\ lastOp = "remove"
  /\ \E i \in 1..Len(treeData) : \E j \in 1..Len(treeData[i].children) :
       Len(treeData[i].children[j].children) = 2

====
